---- MODULE Spec2Model ----
(***************************************************************************)
(* Deployment pipeline of monaco (dynatrace-monitoring-as-code).           *)
(*                                                                         *)
(* Part 1: pkg/deploy DeployConfigs -- the per-environment deploy loop     *)
(* with its dispatch to deployConfig / deploySetting, the EntityMap and    *)
(* the tenant client seen as a nondeterministic collaborator.              *)
(***************************************************************************)
EXTENDS Integers, Sequences, FiniteSets, TLC

(***************************************************************************)
(* Bounds                                                                  *)
(***************************************************************************)
\* number of configs handed to one DeployConfigs run
MaxConfigs == 3

(***************************************************************************)
(* Coordinates, parameters, configs                                        *)
(***************************************************************************)
\* coordinate.Coordinate{Project, Type, ConfigId}
Coordinate(project, type, configId) ==
    [Project |-> project, Type |-> type, ConfigId |-> configId]

\* the Go zero value of Coordinate, i.e. parameter.ResolvedEntity{}.Coordinate
ZeroCoordinate == Coordinate("", "", "")

\* reserved parameter / property names (config.IdParameter, ...)
IdParameter == "id"
NameParameter == "name"
ScopeParameter == "scope"

\* parameter.Properties{} : the empty property mapping
EmptyProperties == [p \in {} |-> ""]

\* parameter.ResolvedEntity{} : what deployConfig / deploySetting return
\* next to an error, and what `var entity` holds for an entities type
ZeroEntity ==
    [EntityName |-> "", Coordinate |-> ZeroCoordinate,
     Properties |-> EmptyProperties, Skip |-> FALSE]

\* api.ApiMap : the classic APIs known to the run; dashboard is an API
\* that permits non-unique names, alerting-profile is not
ApiMap ==
    [a \in {"alerting-profile", "dashboard"} |->
        [Id |-> a, NonUniqueName |-> (a = "dashboard")]]

\* a value parameter and a cross-config reference parameter
ValueParameter(v) ==
    [kind |-> "value", value |-> v, config |-> ZeroCoordinate, property |-> ""]
ReferenceParameter(coord, prop) ==
    [kind |-> "ref", value |-> "", config |-> coord, property |-> prop]

(***************************************************************************)
(* Inputs: the configs a run may be given                                  *)
(***************************************************************************)
Absent == "<absent>"

\* the shapes of config the model draws its inputs from:
\*   kind   Type discriminator (api | settings | entities)
\*   type   Coordinate.Type (api id or schema id)
\*   name   value of the name parameter, or Absent
\*   scope  value of the scope parameter, or Absent
\*   ref    property a `url` parameter references on a neighbour config,
\*          or Absent
\*   tmpl   placeholders of the template
Shape(kind, type, skip, name, scope, ref, tmpl) ==
    [kind |-> kind, type |-> type, skip |-> skip, name |-> name,
     scope |-> scope, ref |-> ref, tmpl |-> tmpl]

Shapes ==
    { Shape("api", "alerting-profile", FALSE, "A", Absent, Absent, {"name"}),
      Shape("api", "alerting-profile", FALSE, "B", Absent, "id", {"name", "url"}),
      Shape("api", "alerting-profile", TRUE, "A", Absent, Absent, {"name"}),
      Shape("api", "alerting-profile", FALSE, Absent, Absent, Absent, {}),
      Shape("api", "alerting-profile", FALSE, "B", Absent, Absent, {"name", "undefined"}),
      Shape("api", "dashboard", FALSE, "A", Absent, "id", {"name", "url"}),
      Shape("api", "extension", FALSE, "A", Absent, Absent, {"name"}),
      Shape("settings", "builtin:tags", FALSE, "A", "HOST-1", "name", {"url"}),
      Shape("settings", "builtin:tags", FALSE, "A", "", Absent, {}),
      Shape("settings", "builtin:tags", FALSE, "A", Absent, Absent, {}),
      Shape("entities", "HOST", FALSE, Absent, Absent, Absent, {}) }

\* the configId of the config at position i; the third config carries a
\* UUID as its configId
ConfigIdAt(i) ==
    IF i = 3 THEN "00000000-0000-0000-0000-000000000001" ELSE "c" \o ToString(i)

\* the neighbour a reference of the config at position i points at: the
\* config before it, and for the first config the one after it (a list
\* that is not sorted, which DeployConfigs does not check)
TargetAt(i) == IF i > 1 THEN i - 1 ELSE i + 1

CoordinateAt(shapes, i) ==
    IF i \in DOMAIN shapes
    THEN Coordinate("p", shapes[i].type, ConfigIdAt(i))
    ELSE Coordinate("p", "alerting-profile", "not-in-project")

ParametersAt(shapes, i) ==
    LET s == shapes[i]
        names == (IF s.name # Absent THEN {NameParameter} ELSE {})
                 \cup (IF s.scope # Absent THEN {ScopeParameter} ELSE {})
                 \cup (IF s.ref # Absent THEN {"url"} ELSE {})
    IN [p \in names |->
           IF p = NameParameter THEN ValueParameter(s.name)
           ELSE IF p = ScopeParameter THEN ValueParameter(s.scope)
           ELSE ReferenceParameter(CoordinateAt(shapes, TargetAt(i)), s.ref)]

\* config.Config
ConfigAt(shapes, i) ==
    [Coordinate |-> CoordinateAt(shapes, i),
     Kind |-> shapes[i].kind,
     Skip |-> shapes[i].skip,
     Parameters |-> ParametersAt(shapes, i),
     Template |-> shapes[i].tmpl,
     OriginObjectId |-> IF shapes[i].kind = "settings"
                        THEN "origin-" \o ConfigIdAt(i) ELSE "",
     SchemaId |-> IF shapes[i].kind = "settings" THEN shapes[i].type ELSE ""]

ConfigLists ==
    { [i \in 1..MaxConfigs |-> ConfigAt(shapes, i)] :
        shapes \in [1..MaxConfigs -> Shapes] }

(***************************************************************************)
(* EntityMap                                                               *)
(***************************************************************************)
\* NewEntityMap(apis): no resolved entity, an empty name set per API
NewEntityMap(apis) ==
    [resolvedEntities |-> [c \in {} |-> ZeroEntity],
     knownEntityNames |-> [a \in DOMAIN apis |-> {}]]

\* EntityMap.PutResolved: memorise the entity under the given coordinate
\* and, unless the entity is a skipped one, its name under the type of the
\* coordinate
PutResolved(entityMap, coordinate, resolvedEntity) ==
    LET entities == (coordinate :> resolvedEntity) @@ entityMap.resolvedEntities
        known == entityMap.knownEntityNames
        names == IF coordinate.Type \in DOMAIN known
                 THEN known[coordinate.Type] ELSE {}
    IN IF resolvedEntity.Skip
       THEN [entityMap EXCEPT !.resolvedEntities = entities]
       ELSE [resolvedEntities |-> entities,
             knownEntityNames |->
                (coordinate.Type :> (names \cup {resolvedEntity.EntityName}))
                @@ known]

\* EntityMap.Known: has this name been used by an entity of this type
Known(entityMap, entityType, name) ==
    /\ entityType \in DOMAIN entityMap.knownEntityNames
    /\ name \in entityMap.knownEntityNames[entityType]

\* EntityMap.Resolved
Resolved(entityMap) == entityMap.resolvedEntities

(***************************************************************************)
(* Errors                                                                  *)
(***************************************************************************)
\* an error raised for a config; kind tells the taxonomy of spec section 7
ConfigError(kind, conf, detail) ==
    [kind |-> kind, coord |-> conf.Coordinate, detail |-> detail]

\* newConfigDeployErr(conf, msg)
newConfigDeployErr(conf, kind, detail) == ConfigError(kind, conf, detail)

(***************************************************************************)
(* Parameter resolution and rendering                                      *)
(***************************************************************************)
\* the order in which the parameters of one config are visited
ParameterOrder == <<NameParameter, ScopeParameter, "url">>

\* why a parameter cannot be resolved against the entities, or "" if it can
ResolveFailure(param, entities) ==
    IF param.kind # "ref" THEN ""
    ELSE IF param.config \notin DOMAIN entities THEN "referenced config not found"
    ELSE IF entities[param.config].Skip THEN "referenced config is skipped"
    ELSE IF param.property \notin DOMAIN entities[param.config].Properties
         THEN "referenced property not found"
    ELSE ""

\* Parameter.ResolveValue
ResolveValue(param, entities) ==
    IF param.kind = "ref"
    THEN entities[param.config].Properties[param.property]
    ELSE param.value

RECURSIVE ResolutionErrors(_, _, _)
ResolutionErrors(conf, entities, k) ==
    IF k > Len(ParameterOrder) THEN <<>>
    ELSE LET p == ParameterOrder[k]
             rest == ResolutionErrors(conf, entities, k + 1)
         IN IF p \in DOMAIN conf.Parameters
               /\ ResolveFailure(conf.Parameters[p], entities) # ""
            THEN <<ConfigError("resolution", conf,
                               ResolveFailure(conf.Parameters[p], entities))>>
                 \o rest
            ELSE rest

\* resolveProperties(conf, entities): the property mapping of the config,
\* or the errors of the parameters that do not resolve
resolveProperties(conf, entities) ==
    LET errs == ResolutionErrors(conf, entities, 1)
    IN IF Len(errs) > 0
       THEN [properties |-> EmptyProperties, errors |-> errs]
       ELSE [properties |->
                [p \in DOMAIN conf.Parameters |->
                    ResolveValue(conf.Parameters[p], entities)],
             errors |-> <<>>]

\* extractConfigName(conf, properties)
extractConfigName(conf, properties) ==
    IF NameParameter \notin DOMAIN properties
    THEN [name |-> "", err |-> <<newConfigDeployErr(conf, "name", "missing name")>>]
    ELSE IF properties[NameParameter] = ""
    THEN [name |-> "", err |-> <<newConfigDeployErr(conf, "name", "empty name")>>]
    ELSE [name |-> properties[NameParameter], err |-> <<>>]

\* Config.Render(properties): every placeholder of the template replaced by
\* its property; a placeholder without a property is a render error
Render(conf, properties) ==
    IF \E ph \in conf.Template : ph \notin DOMAIN properties
    THEN [content |-> EmptyProperties,
          err |-> <<ConfigError("render", conf, "placeholder not satisfied")>>]
    ELSE [content |-> [ph \in conf.Template |-> properties[ph]], err |-> <<>>]

(***************************************************************************)
(* The tenant client                                                       *)
(***************************************************************************)
\* what one client upsert may answer: an error, or an api.DynatraceEntity
\* {Id, Name}; the name is the tenant's, not necessarily the one sent
ClientResponses ==
    { [ok |-> FALSE, Id |-> "", Name |-> ""] }
    \cup { [ok |-> TRUE, Id |-> "b-1", Name |-> "B"],
           [ok |-> TRUE, Id |-> "a-1", Name |-> "A"] }

\* one recorded call of the client: the method, the config it was issued
\* for, the arguments and the answer
ClientCall(op, conf, api, id, name, scope, content, resp) ==
    [op |-> op, coord |-> conf.Coordinate, api |-> api, id |-> id,
     name |-> name, scope |-> scope, content |-> content,
     originObjectId |-> conf.OriginObjectId, resp |-> resp]

(***************************************************************************)
(* Stable UUID of a config of a non-unique-name API                        *)
(***************************************************************************)
\* idutils.IsUuid(id) || idutils.IsMeId(id)
IsUuidOrMeId(id) == id \in {"00000000-0000-0000-0000-000000000001", "HOST-1"}

\* idutils.GenerateUuidFromConfigId(projectId, configId)
GenerateUuidFromConfigId(projectId, configId) ==
    "uuid(" \o projectId \o "/" \o configId \o ")"

(***************************************************************************)
(* deployConfig / deploySetting                                            *)
(***************************************************************************)
\* faulty variant of Outcome: next to its errors a half-filled entity of the
\* failed config is handed back, with an empty id and name
OutcomeWithPartialEntity(entity, errs, issued) ==
    [entity |-> IF Len(errs) > 0
                THEN [EntityName |-> "", Coordinate |-> errs[1].coord,
                      Properties |-> (IdParameter :> "") @@ (NameParameter :> ""),
                      Skip |-> FALSE]
                ELSE entity,
     errors |-> errs, calls |-> issued]

\* what deployConfig and deploySetting hand back: the entity, the errors
\* (empty = nil) and the client calls they issued
Outcome(entity, errs, issued) ==
    [entity |-> entity, errors |-> errs, calls |-> issued]

\* faulty variant of upsertNonUniqueNameConfig: a UUID is generated even
\* when the configId is one already
upsertAlwaysGenerates(resp, apiToDeploy, conf, configName, renderedConfig) ==
    ClientCall("UpsertConfigByNonUniqueNameAndId", conf, apiToDeploy.Id,
               GenerateUuidFromConfigId(conf.Coordinate.Project,
                                        conf.Coordinate.ConfigId),
               configName, "", renderedConfig, resp)

\* upsertNonUniqueNameConfig: the call it issues
upsertNonUniqueNameConfig(resp, apiToDeploy, conf, configName, renderedConfig) ==
    LET configId == conf.Coordinate.ConfigId
        projectId == conf.Coordinate.Project
        entityUuid == IF IsUuidOrMeId(configId) THEN configId
                      ELSE GenerateUuidFromConfigId(projectId, configId)
    IN ClientCall("UpsertConfigByNonUniqueNameAndId", conf, apiToDeploy.Id,
                  entityUuid, configName, "", renderedConfig, resp)

\* faulty variant of DuplicateNameErrors: the API kind test inverted
DuplicateNameErrorsInverted(entityMap, apiToDeploy, conf, configName) ==
    IF Known(entityMap, apiToDeploy.Id, configName) /\ apiToDeploy.NonUniqueName
    THEN <<newConfigDeployErr(conf, "duplicate", configName)>>
    ELSE <<>>

\* the duplicate-name check of deployConfig (lines 151-153)
DuplicateNameErrors(entityMap, apiToDeploy, conf, configName) ==
    IF Known(entityMap, apiToDeploy.Id, configName) /\ ~apiToDeploy.NonUniqueName
    THEN <<newConfigDeployErr(conf, "duplicate", configName)>>
    ELSE <<>>

\* faulty variants of DeployedEntity: the id taken from the config instead of the
\* client's answer, and the name property left as resolved
DeployedEntityOwnId(conf, properties, resp) ==
    [EntityName |-> resp.Name,
     Coordinate |-> conf.Coordinate,
     Properties |-> (IdParameter :> conf.Coordinate.ConfigId)
                    @@ (NameParameter :> resp.Name) @@ properties,
     Skip |-> FALSE]
DeployedEntityKeepsName(conf, properties, resp) ==
    [EntityName |-> resp.Name,
     Coordinate |-> conf.Coordinate,
     Properties |-> (IdParameter :> resp.Id) @@ properties
                    @@ (NameParameter :> resp.Name),
     Skip |-> FALSE]

\* the entity deployConfig / deploySetting build from the client's answer
DeployedEntity(conf, properties, resp) ==
    [EntityName |-> resp.Name,
     Coordinate |-> conf.Coordinate,
     Properties |-> (IdParameter :> resp.Id) @@ (NameParameter :> resp.Name)
                    @@ properties,
     Skip |-> FALSE]

\* faulty variant of deployConfig: the upsert is issued before the render
\* error is looked at
deployConfigUpsertsUnrendered(resp, apis, entityMap, conf) ==
    IF conf.Coordinate.Type \notin DOMAIN apis
    THEN Outcome(ZeroEntity, <<ConfigError("unknown api", conf, "")>>, <<>>)
    ELSE
    LET apiToDeploy == apis[conf.Coordinate.Type]
        resolved == resolveProperties(conf, Resolved(entityMap))
        properties == resolved.properties
        extracted == extractConfigName(conf, properties)
        configName == extracted.name
        errs == IF Len(extracted.err) > 0 THEN extracted.err
                ELSE DuplicateNameErrors(entityMap, apiToDeploy, conf, configName)
        rendered == Render(conf, properties)
        call == IF apiToDeploy.NonUniqueName
                THEN upsertNonUniqueNameConfig(resp, apiToDeploy, conf,
                                               configName, rendered.content)
                ELSE ClientCall("UpsertConfigByName", conf, apiToDeploy.Id, "",
                                configName, "", rendered.content, resp)
    IN IF Len(resolved.errors) > 0 THEN Outcome(ZeroEntity, resolved.errors, <<>>)
       ELSE IF Len(errs) > 0 THEN Outcome(ZeroEntity, errs, <<>>)
       ELSE IF Len(rendered.err) > 0 THEN Outcome(ZeroEntity, rendered.err, <<call>>)
       ELSE IF ~resp.ok
            THEN Outcome(ZeroEntity,
                         <<newConfigDeployErr(conf, "client", "upsert failed")>>,
                         <<call>>)
       ELSE Outcome(DeployedEntity(conf, properties, resp), <<>>, <<call>>)

\* deployConfig(client, apis, entityMap, conf); resp is the answer the
\* client gives if it is called
deployConfig(resp, apis, entityMap, conf) ==
    IF conf.Coordinate.Type \notin DOMAIN apis
    THEN Outcome(ZeroEntity, <<ConfigError("unknown api", conf, "")>>, <<>>)
    ELSE
    LET apiToDeploy == apis[conf.Coordinate.Type]
        resolved == resolveProperties(conf, Resolved(entityMap))
        properties == resolved.properties
        extracted == extractConfigName(conf, properties)
        configName == extracted.name
        errs == IF Len(extracted.err) > 0 THEN extracted.err
                ELSE DuplicateNameErrors(entityMap, apiToDeploy, conf, configName)
        rendered == Render(conf, properties)
        call == IF apiToDeploy.NonUniqueName
                THEN upsertNonUniqueNameConfig(resp, apiToDeploy, conf,
                                               configName, rendered.content)
                ELSE ClientCall("UpsertConfigByName", conf, apiToDeploy.Id, "",
                                configName, "", rendered.content, resp)
    IN IF Len(resolved.errors) > 0 THEN Outcome(ZeroEntity, resolved.errors, <<>>)
       ELSE IF Len(errs) > 0 THEN Outcome(ZeroEntity, errs, <<>>)
       ELSE IF Len(rendered.err) > 0 THEN Outcome(ZeroEntity, rendered.err, <<>>)
       ELSE IF ~resp.ok
            THEN Outcome(ZeroEntity,
                         <<newConfigDeployErr(conf, "client", "upsert failed")>>,
                         <<call>>)
       ELSE Outcome(DeployedEntity(conf, properties, resp), <<>>, <<call>>)

\* faulty variant of extractScope: the empty scope is let through
extractScopeAcceptsEmpty(conf, properties) ==
    IF ScopeParameter \notin DOMAIN properties
    THEN [scope |-> "", err |-> <<ConfigError("scope", conf, "property not found")>>]
    ELSE [scope |-> properties[ScopeParameter], err |-> <<>>]

\* extractScope(properties)
extractScope(conf, properties) ==
    IF ScopeParameter \notin DOMAIN properties
    THEN [scope |-> "", err |-> <<ConfigError("scope", conf, "property not found")>>]
    ELSE IF properties[ScopeParameter] = ""
    THEN [scope |-> "", err |-> <<ConfigError("scope", conf, "resolved scope is empty")>>]
    ELSE [scope |-> properties[ScopeParameter], err |-> <<>>]

\* deploySetting(settingsClient, entityMap, c)
deploySetting(resp, entityMap, c) ==
    LET resolved == resolveProperties(c, Resolved(entityMap))
        properties == resolved.properties
        extracted == extractScope(c, properties)
        rendered == Render(c, properties)
        call == ClientCall("UpsertSettings", c, c.SchemaId,
                           c.Coordinate.ConfigId, "", extracted.scope,
                           rendered.content, resp)
    IN IF Len(resolved.errors) > 0 THEN Outcome(ZeroEntity, resolved.errors, <<>>)
       ELSE IF Len(extracted.err) > 0 THEN Outcome(ZeroEntity, extracted.err, <<>>)
       ELSE IF Len(rendered.err) > 0 THEN Outcome(ZeroEntity, rendered.err, <<>>)
       ELSE IF ~resp.ok
            THEN Outcome(ZeroEntity,
                         <<newConfigDeployErr(c, "client", "upsert failed")>>,
                         <<call>>)
       ELSE Outcome(DeployedEntity(c, properties, resp), <<>>, <<call>>)

(***************************************************************************)
(* DeployConfigs                                                           *)
(***************************************************************************)
VARIABLES
    sortedConfigs,  \* the configs given to the run, in the order given
    opts,           \* DeployConfigsOptions {ContinueOnErr, DryRun}
    pc,             \* "loop" while the run iterates, "done" once it returned
    idx,            \* position of the next config of the range loop
    entityMap,      \* the run's EntityMap
    errors,         \* the errors collected so far / returned
    calls,          \* history: the client calls issued, in order
    puts,           \* history: the coordinates PutResolved was called with
    processed,      \* history: per config the loop body ran for, its errors
    tenant,         \* the tenant behind the client, over a run and its re-run
    loader,         \* newProject: the projectBuilder and what it returns
    rateLimit,      \* executeRequest of the rate limit strategy
    pure,           \* a pure function under test: its inputs and its result
    download,       \* Downloader.download: its goroutines and the result map
    deleter,        \* deleteConfigs over the selected environments
    parallel        \* DeployConfigs runs of several environments side by side

vars == <<sortedConfigs, opts, pc, idx, entityMap, errors, calls, puts, processed,
          tenant, loader, rateLimit, pure, download, deleter, parallel>>

\* the variables of one DeployConfigs run
deployVars == <<sortedConfigs, opts, pc, idx, entityMap, errors, calls, puts, processed>>

\* the value of the variable of a part that takes no part in a specification
Idle == [pc |-> "idle"]

\* the download, the deletion and the runs side by side
laterParts == <<download, deleter, parallel>>

\* the parts other than a single DeployConfigs run
otherParts == <<tenant, loader, rateLimit, pure, laterParts>>

\* getWordsForLogging(isDryRun): the verb
getWordsForLogging(isDryRun) == IF isDryRun THEN "validate" ELSE "deploy"

\* fmt.Errorf("failed to %s config %s: %w", logVerb, c.Coordinate, err)
WrapError(logVerb, c, err) == [verb |-> logVerb, coord |-> c.Coordinate, err |-> err]

WrapErrors(logVerb, c, errs) ==
    [k \in 1..Len(errs) |-> WrapError(logVerb, c, errs[k])]

\* faulty variants of StopsOnError: a lost negation, and dryRun forgotten
StopsOnErrorLostNegation(o) == ~o.ContinueOnErr /\ o.DryRun
StopsOnErrorForgetsDryRun(o) == ~o.ContinueOnErr

\* does the run return at a config that yielded errors (line 116)
StopsOnError(o) == ~o.ContinueOnErr /\ ~o.DryRun

\* faulty variants of SkippedEntity: the Skip mark forgotten, and the config's
\* own id kept as a property
SkippedEntityNotMarked(c) ==
    [EntityName |-> c.Coordinate.ConfigId, Coordinate |-> c.Coordinate,
     Properties |-> EmptyProperties, Skip |-> FALSE]
SkippedEntityWithProperties(c) ==
    [EntityName |-> c.Coordinate.ConfigId, Coordinate |-> c.Coordinate,
     Properties |-> (IdParameter :> c.Coordinate.ConfigId), Skip |-> TRUE]

\* the ResolvedEntity recorded for a skipped config (lines 87-92)
SkippedEntity(c) ==
    [EntityName |-> c.Coordinate.ConfigId, Coordinate |-> c.Coordinate,
     Properties |-> EmptyProperties, Skip |-> TRUE]

\* the coordinate the loop records an entity under (line 120)
RecordKey(c, entity) == entity.Coordinate

Init ==
    /\ sortedConfigs \in ConfigLists
    /\ opts \in [ContinueOnErr : BOOLEAN, DryRun : BOOLEAN]
    /\ pc = "loop"
    /\ idx = 1
    /\ entityMap = NewEntityMap(ApiMap)
    /\ errors = <<>>
    /\ calls = <<>>
    /\ puts = <<>>
    /\ processed = <<>>
    /\ tenant = Idle /\ loader = Idle /\ rateLimit = Idle /\ pure = Idle
    /\ download = Idle /\ deleter = Idle /\ parallel = Idle

\* faulty variant of NextIndex: the loop runs its body again for the same
\* config
NextIndexStuck(i) == i

\* the range loop moves on to the next config (line 81)
NextIndex(i) == i + 1

\* lines 111-121: collect the errors, return or record the entity
Conclude(c, outcome) ==
    /\ calls' = calls \o outcome.calls
    /\ processed' = Append(processed, [coord |-> c.Coordinate, errors |-> outcome.errors])
    /\ errors' = errors \o WrapErrors(getWordsForLogging(opts.DryRun), c, outcome.errors)
    /\ IF Len(outcome.errors) > 0 /\ StopsOnError(opts)
       THEN /\ pc' = "done"
            /\ UNCHANGED <<idx, entityMap, puts>>
       ELSE /\ entityMap' = PutResolved(entityMap, RecordKey(c, outcome.entity),
                                        outcome.entity)
            /\ puts' = Append(puts, RecordKey(c, outcome.entity))
            /\ idx' = NextIndex(idx)
            /\ pc' = pc
    /\ UNCHANGED <<sortedConfigs, opts>>

\* lines 84-94: a config with Skip set
SkipStep ==
    /\ pc = "loop" /\ idx <= Len(sortedConfigs)
    /\ LET c == sortedConfigs[idx] IN
        /\ c.Skip
        /\ entityMap' = PutResolved(entityMap, c.Coordinate, SkippedEntity(c))
        /\ puts' = Append(puts, c.Coordinate)
        /\ processed' = Append(processed, [coord |-> c.Coordinate, errors |-> <<>>])
        /\ idx' = NextIndex(idx)
    /\ UNCHANGED <<sortedConfigs, opts, pc, errors, calls>>

SkipConfig == SkipStep /\ UNCHANGED otherParts

\* lines 103-104: an entities type is not deployable
DeployEntities ==
    /\ pc = "loop" /\ idx <= Len(sortedConfigs)
    /\ LET c == sortedConfigs[idx] IN
        /\ ~c.Skip /\ c.Kind = "entities"
        /\ Conclude(c, Outcome(ZeroEntity, <<>>, <<>>))
    /\ UNCHANGED otherParts

\* lines 105-106: a settings 2.0 object
DeploySettings ==
    /\ pc = "loop" /\ idx <= Len(sortedConfigs)
    /\ LET c == sortedConfigs[idx] IN
        /\ ~c.Skip /\ c.Kind = "settings"
        /\ \E resp \in ClientResponses :
              Conclude(c, deploySetting(resp, entityMap, c))
    /\ UNCHANGED otherParts

\* lines 107-108: a classic config
DeployClassic ==
    /\ pc = "loop" /\ idx <= Len(sortedConfigs)
    /\ LET c == sortedConfigs[idx] IN
        /\ ~c.Skip /\ c.Kind = "api"
        /\ \E resp \in ClientResponses :
              Conclude(c, deployConfig(resp, ApiMap, entityMap, c))
    /\ UNCHANGED otherParts

\* line 123: the loop is over
ReturnStep ==
    /\ pc = "loop" /\ idx > Len(sortedConfigs)
    /\ pc' = "done"
    /\ UNCHANGED <<sortedConfigs, opts, idx, entityMap, errors, calls, puts, processed>>

Return == ReturnStep /\ UNCHANGED otherParts

Next == SkipConfig \/ DeployEntities \/ DeploySettings \/ DeployClassic \/ Return

Spec == Init /\ [][Next]_vars

TypeOK ==
    /\ pc \in {"loop", "done"}
    /\ idx \in 1..(MaxConfigs + 1)
    /\ Len(puts) <= MaxConfigs

(***************************************************************************)
(* Properties of DeployConfigs                                             *)
(***************************************************************************)
\* position of the config with this coordinate in sortedConfigs (0 if none)
PositionOf(coord) ==
    IF \E i \in DOMAIN sortedConfigs : sortedConfigs[i].Coordinate = coord
    THEN CHOOSE i \in DOMAIN sortedConfigs : sortedConfigs[i].Coordinate = coord
    ELSE 0

UpsertOps == {"UpsertConfigByName", "UpsertConfigByNonUniqueNameAndId", "UpsertSettings"}

\* the client calls issued for the config at position i
CallsFor(i) == { k \in DOMAIN calls : calls[k].coord = sortedConfigs[i].Coordinate }

\* the returned errors that are about the config at position i
ErrorsFor(i) == { k \in DOMAIN errors : errors[k].coord = sortedConfigs[i].Coordinate }

RECURSIVE FlattenErrors(_, _)
\* the errors of the first n processed configs, wrapped as the loop wraps them
FlattenErrors(verb, n) ==
    IF n = 0 THEN <<>>
    ELSE FlattenErrors(verb, n - 1)
         \o [k \in 1..Len(processed[n].errors) |->
                [verb |-> verb, coord |-> processed[n].coord,
                 err |-> processed[n].errors[k]]]

\* C1: the client upserts of one run follow the order of sortedConfigs: a
\* config upserted before another stands before it in the list, and no
\* config is upserted twice
C1_UpsertsFollowSortOrder ==
    /\ \A k \in DOMAIN calls :
          calls[k].op \in UpsertOps /\ PositionOf(calls[k].coord) \in DOMAIN sortedConfigs
    /\ \A j, k \in DOMAIN calls :
          j < k => PositionOf(calls[j].coord) < PositionOf(calls[k].coord)

\* C1 witness: the run is over and upserted the first and the last config
C1_Witness ==
    /\ pc = "done" /\ Len(calls) >= 2
    /\ calls[1].coord = sortedConfigs[1].Coordinate
    /\ calls[Len(calls)].coord = sortedConfigs[Len(sortedConfigs)].Coordinate

\* C2: without continueOnError and dryRun the run returns at the first
\* config that yields errors: the loop never goes on with errors collected,
\* the returned errors are those of that config only, and no client call
\* was issued for a config behind it
C2_StopsAtFirstError ==
    (~opts.ContinueOnErr /\ ~opts.DryRun /\ Len(errors) > 0) =>
        /\ pc = "done"
        /\ idx \in DOMAIN sortedConfigs
        /\ Len(processed) = idx
        /\ \A k \in 1..(idx - 1) : processed[k].errors = <<>>
        /\ errors = [k \in 1..Len(processed[idx].errors) |->
                        [verb |-> "deploy", coord |-> sortedConfigs[idx].Coordinate,
                         err |-> processed[idx].errors[k]]]
        /\ \A k \in DOMAIN calls : PositionOf(calls[k].coord) <= idx

\* C2 witness: the run stopped at the second config, after a first upsert,
\* with a config left unprocessed
C2_Witness ==
    /\ ~opts.ContinueOnErr /\ ~opts.DryRun /\ pc = "done"
    /\ Len(errors) > 0 /\ idx = 2 /\ idx < Len(sortedConfigs)
    /\ Len(calls) >= 1

\* C3: with continueOnError or dryRun the run processes every config and
\* returns the errors of every failing config, in order, and nothing else
C3_ContinuesAndCollectsAll ==
    (opts.ContinueOnErr \/ opts.DryRun) =>
        /\ Len(processed) = idx - 1
        /\ \A k \in DOMAIN processed : processed[k].coord = sortedConfigs[k].Coordinate
        /\ errors = FlattenErrors(getWordsForLogging(opts.DryRun), Len(processed))
        /\ (pc = "done" => Len(processed) = Len(sortedConfigs))

\* C3 witness: a dry run over the whole list in which only the second
\* config failed, at rendering: one error returned, all configs processed
C3_Witness ==
    /\ opts.DryRun /\ ~opts.ContinueOnErr /\ pc = "done"
    /\ Len(processed) = Len(sortedConfigs) /\ Len(processed) >= 3
    /\ Len(errors) = 1 /\ errors[1].coord = sortedConfigs[2].Coordinate
    /\ errors[1].err.kind = "render" /\ errors[1].verb = "validate"

\* C4 (as claimed): once the loop has gone past a config that is not
\* skipped, whether its deployment succeeded or failed, the EntityMap holds
\* an entity under that config's own Coordinate
C4_EntityUnderOwnCoordinate ==
    \A k \in 1..(idx - 1) :
        ~sortedConfigs[k].Skip =>
            /\ sortedConfigs[k].Coordinate \in DOMAIN entityMap.resolvedEntities
            /\ entityMap.resolvedEntities[sortedConfigs[k].Coordinate].Coordinate
                  = sortedConfigs[k].Coordinate

\* C5 (as claimed): the EntityMap is append-only during a run over configs
\* of pairwise distinct Coordinates: PutResolved is called at most once per
\* key
C5_KeysWrittenOnce ==
    \A j, k \in DOMAIN puts : j # k => puts[j] # puts[k]

\* the config at position k is a classic config of a known API
IsClassic(k) ==
    /\ sortedConfigs[k].Kind = "api"
    /\ sortedConfigs[k].Coordinate.Type \in DOMAIN ApiMap

\* the kinds of the errors the config processed at position k yielded
ErrorKinds(k) == { processed[k].errors[e].kind : e \in DOMAIN processed[k].errors }

\* the processed configs at j < k are classic configs of one API, not
\* skipped, whose parameters resolved, to the same name
SameNamePair(j, k) ==
    /\ j < k /\ j \in DOMAIN processed /\ k \in DOMAIN processed
    /\ IsClassic(j) /\ IsClassic(k)
    /\ sortedConfigs[j].Coordinate.Type = sortedConfigs[k].Coordinate.Type
    /\ ~sortedConfigs[j].Skip /\ ~sortedConfigs[k].Skip
    /\ "resolution" \notin ErrorKinds(j) /\ "resolution" \notin ErrorKinds(k)
    /\ NameParameter \in DOMAIN sortedConfigs[j].Parameters
    /\ NameParameter \in DOMAIN sortedConfigs[k].Parameters
    /\ sortedConfigs[j].Parameters[NameParameter].value
          = sortedConfigs[k].Parameters[NameParameter].value

\* the name the config at position k resolves to
ResolvedName(k) == sortedConfigs[k].Parameters[NameParameter].value

\* every entity the client returned so far carries the name it was sent
ClientEchoesNames ==
    \A c \in DOMAIN calls :
        (calls[c].resp.ok /\ calls[c].op # "UpsertSettings") =>
            calls[c].resp.Name = calls[c].name

IsDeployable(k) == sortedConfigs[k].Kind = "settings" \/ IsClassic(k)

\* the reference parameters of the config at position k
ReferenceParams(k) ==
    { p \in DOMAIN sortedConfigs[k].Parameters :
        sortedConfigs[k].Parameters[p].kind = "ref" }

\* the config at position k references, through parameter p, the config at
\* the earlier position j
References(k, p, j) ==
    /\ j < k
    /\ p \in ReferenceParams(k)
    /\ sortedConfigs[k].Parameters[p].config = sortedConfigs[j].Coordinate

\* C7: a deployable config that references an earlier config with
\* skip=true fails with a resolution error naming the skipped reference,
\* and no client call is issued for it
C7_ReferenceToSkippedFails ==
    \A k \in DOMAIN processed : \A j \in 1..(k - 1) :
        (/\ ~sortedConfigs[k].Skip /\ IsDeployable(k)
         /\ sortedConfigs[j].Skip
         /\ \E p \in ReferenceParams(k) : References(k, p, j)) =>
            /\ CallsFor(k) = {}
            /\ Len(processed[k].errors) >= 1
            /\ \A e \in DOMAIN processed[k].errors :
                  /\ processed[k].errors[e].kind = "resolution"
                  /\ processed[k].errors[e].detail = "referenced config is skipped"
            /\ ErrorsFor(k) # {}

\* C7 witness: the second config references the skipped first one and was
\* processed, the run going on behind it
C7_Witness ==
    /\ Len(processed) >= 2 /\ idx > 2
    /\ sortedConfigs[1].Skip /\ ~sortedConfigs[2].Skip /\ IsDeployable(2)
    /\ \E p \in ReferenceParams(2) : References(2, p, 1)
    /\ ErrorKinds(2) = {"resolution"} /\ calls = <<>>

\* C8: a config with skip=true causes no client call and no error, and
\* the EntityMap holds under its Coordinate an entity with Skip set and
\* empty properties
C8_SkippedConfigRecorded ==
    \A k \in DOMAIN processed :
        sortedConfigs[k].Skip =>
            /\ CallsFor(k) = {} /\ ErrorsFor(k) = {}
            /\ processed[k].errors = <<>>
            /\ sortedConfigs[k].Coordinate \in DOMAIN Resolved(entityMap)
            /\ LET e == Resolved(entityMap)[sortedConfigs[k].Coordinate]
               IN /\ e.Skip
                  /\ e.Properties = EmptyProperties
                  /\ DOMAIN e.Properties = {}
                  /\ e.Coordinate = sortedConfigs[k].Coordinate
                  /\ e.EntityName = sortedConfigs[k].Coordinate.ConfigId

\* C8 witness: a skipped config was processed and the run went on to
\* deploy a config behind it
C8_Witness ==
    /\ Len(processed) >= 2 /\ sortedConfigs[1].Skip
    /\ sortedConfigs[1].Coordinate \in DOMAIN Resolved(entityMap)
    /\ Len(calls) >= 1 /\ errors = <<>>

\* the value a reference to property prop of an entity deployed with the
\* client's answer resp has to resolve to
Returned(resp, prop) == IF prop = IdParameter THEN resp.Id ELSE resp.Name

\* C9: when config A references property id (or name) of config B, B
\* stands before A and B's upsert succeeded, then A's reference resolves,
\* and the payload A is upserted with carries the value the client
\* returned for B
C9_ReferenceSeesReturnedId ==
    \A k \in DOMAIN processed : \A j \in 1..(k - 1) : \A p \in ReferenceParams(k) :
        (/\ References(k, p, j) /\ ~sortedConfigs[k].Skip /\ IsDeployable(k)
         /\ sortedConfigs[k].Parameters[p].property \in {IdParameter, NameParameter}
         /\ \E b \in CallsFor(j) : calls[b].resp.ok) =>
            /\ "resolution" \notin ErrorKinds(k)
            /\ \A a \in CallsFor(k) : \A b \in CallsFor(j) :
                  /\ b < a
                  /\ p \in sortedConfigs[k].Template =>
                        /\ p \in DOMAIN calls[a].content
                        /\ calls[a].content[p] =
                              Returned(calls[b].resp,
                                       sortedConfigs[k].Parameters[p].property)

\* C9 witness: B was upserted and answered with id b-1, and A, which
\* references B's id, was upserted with b-1 in its payload
C9_Witness ==
    /\ Len(calls) >= 2
    /\ calls[1].coord = sortedConfigs[1].Coordinate
    /\ calls[1].resp = [ok |-> TRUE, Id |-> "b-1", Name |-> "B"]
    /\ calls[2].coord = sortedConfigs[2].Coordinate
    /\ References(2, "url", 1)
    /\ sortedConfigs[2].Parameters["url"].property = IdParameter
    /\ calls[2].content["url"] = "b-1"

\* C10: the entity recorded for a config whose upsert succeeded carries
\* as properties id and name the values the client returned; the entity
\* recorded for a skipped config has no property
C10_RecordedProperties ==
    /\ \A c \in DOMAIN calls :
          calls[c].resp.ok =>
              /\ calls[c].coord \in DOMAIN Resolved(entityMap)
              /\ LET e == Resolved(entityMap)[calls[c].coord]
                 IN /\ {IdParameter, NameParameter} \subseteq DOMAIN e.Properties
                    /\ e.Properties[IdParameter] = calls[c].resp.Id
                    /\ e.Properties[NameParameter] = calls[c].resp.Name
                    /\ ~e.Skip
    /\ \A c \in DOMAIN Resolved(entityMap) :
          Resolved(entityMap)[c].Skip =>
              DOMAIN Resolved(entityMap)[c].Properties = {}

\* C10 witness: the run recorded a skipped entity and a deployed entity
\* whose client-given name differs from the name it resolved
C10_Witness ==
    /\ pc = "done"
    /\ \E c \in DOMAIN Resolved(entityMap) : Resolved(entityMap)[c].Skip
    /\ \E c \in DOMAIN calls :
          /\ calls[c].resp.ok /\ calls[c].op = "UpsertConfigByName"
          /\ calls[c].resp.Name # calls[c].name

\* C14: a settings config whose scope is missing or resolves to the empty
\* string yields an error and is never sent to the client; every
\* UpsertSettings call carries a non-empty scope
C14_SettingsScopeNonEmpty ==
    /\ \A c \in DOMAIN calls :
          calls[c].op = "UpsertSettings" => calls[c].scope # ""
    /\ \A k \in DOMAIN processed :
          (/\ sortedConfigs[k].Kind = "settings" /\ ~sortedConfigs[k].Skip
           /\ \/ ScopeParameter \notin DOMAIN sortedConfigs[k].Parameters
              \/ sortedConfigs[k].Parameters[ScopeParameter].value = "") =>
              /\ CallsFor(k) = {}
              /\ ErrorKinds(k) = {"scope"}
              /\ ErrorsFor(k) # {}

\* C14 witness: one settings object was upserted with its scope, and one
\* whose scope resolved to the empty string was refused
C14_Witness ==
    /\ \E c \in DOMAIN calls :
          calls[c].op = "UpsertSettings" /\ calls[c].scope = "HOST-1"
    /\ \E k \in DOMAIN processed :
          /\ "scope" \in ErrorKinds(k)
          /\ processed[k].errors[1].detail = "resolved scope is empty"

\* the steps before the upsert of config c, taken on the entity map em:
\* the kinds of those that fail. Extraction, the duplicate check and
\* rendering work on the resolved properties, so they count only when the
\* resolution succeeded.
FailedSteps(c, em) ==
    LET resolved == resolveProperties(c, Resolved(em))
        properties == resolved.properties
    IN  IF Len(resolved.errors) > 0 THEN {"resolution"}
        ELSE (IF c.Kind = "settings" /\ Len(extractScope(c, properties).err) > 0
              THEN {"scope"} ELSE {})
             \cup (IF c.Kind = "api" /\ Len(extractConfigName(c, properties).err) > 0
                   THEN {"name"} ELSE {})
             \cup (IF /\ c.Kind = "api"
                      /\ Len(extractConfigName(c, properties).err) = 0
                      /\ Known(em, c.Coordinate.Type, properties[NameParameter])
                      /\ ~ApiMap[c.Coordinate.Type].NonUniqueName
                   THEN {"duplicate"} ELSE {})
             \cup (IF Len(Render(c, properties).err) > 0 THEN {"render"} ELSE {})

\* the loop is about to handle a classic or settings config that is not
\* skipped
AtDeployableConfig ==
    /\ pc = "loop" /\ idx <= Len(sortedConfigs)
    /\ ~sortedConfigs[idx].Skip
    /\ \/ sortedConfigs[idx].Kind = "settings"
       \/ sortedConfigs[idx].Kind = "api"
          /\ sortedConfigs[idx].Coordinate.Type \in DOMAIN ApiMap

\* C30: the step of the loop for a classic or settings config that is not
\* skipped issues a client call only if resolution, name or scope
\* extraction, the duplicate-name check and rendering all succeeded on the
\* entity map of that moment, and then exactly one, for that config; if one
\* of them fails the step issues no call and appends errors, all of them
\* this config's and none of them the client's
C30_UpsertOnlyAfterAllSteps ==
    [][ AtDeployableConfig =>
          LET c == sortedConfigs[idx]
              failed == FailedSteps(c, entityMap)
              added == SubSeq(errors', Len(errors) + 1, Len(errors'))
          IN  /\ calls' # calls =>
                    /\ failed = {}
                    /\ Len(calls') = Len(calls) + 1
                    /\ calls'[Len(calls')].coord = c.Coordinate
                    /\ calls'[Len(calls')].op \in UpsertOps
              /\ failed = {} => calls' # calls
              /\ failed # {} =>
                    /\ calls' = calls
                    /\ Len(errors') > Len(errors)
                    /\ \A e \in DOMAIN added :
                          /\ added[e].coord = c.Coordinate
                          /\ added[e].err.coord = c.Coordinate
                          /\ added[e].err.kind \in failed
       ]_vars

\* a run in which a config failed to render and reached no client, while
\* another config was upserted
C30_Witness ==
    \E j, k \in DOMAIN processed :
       /\ ~sortedConfigs[k].Skip /\ IsClassic(k)
       /\ "render" \in ErrorKinds(k)
       /\ CallsFor(k) = {}
       /\ ErrorsFor(k) # {}
       /\ CallsFor(j) # {}

\* the loop body ran for the config at position j, which is not skipped,
\* and its deployment yielded errors
DeploymentFailed(j) ==
    /\ j \in DOMAIN processed
    /\ ~sortedConfigs[j].Skip
    /\ Len(processed[j].errors) > 0

\* the entity map offers an id or a name under this coordinate
OffersIdOrName(coord) ==
    /\ coord \in DOMAIN Resolved(entityMap)
    /\ \/ IdParameter \in DOMAIN Resolved(entityMap)[coord].Properties
       \/ NameParameter \in DOMAIN Resolved(entityMap)[coord].Properties

\* C31: in a run that goes on after errors (continueOnError or dryRun), the
\* entity map never offers an id or name under the Coordinate of a config
\* whose deployment failed, and a deployable config that references such an
\* earlier config yields resolution errors only and reaches no client
C31_DependentOfFailedNotUpserted ==
    /\ \A j \in DOMAIN processed :
          DeploymentFailed(j) => ~OffersIdOrName(sortedConfigs[j].Coordinate)
    /\ \A k \in DOMAIN processed : \A j \in 1..(k - 1) :
          (/\ ~StopsOnError(opts)
           /\ DeploymentFailed(j)
           /\ ~sortedConfigs[k].Skip /\ IsDeployable(k)
           /\ \E p \in ReferenceParams(k) : References(k, p, j)) =>
              /\ CallsFor(k) = {}
              /\ Len(processed[k].errors) >= 1
              /\ ErrorKinds(k) = {"resolution"}
              /\ ErrorsFor(k) # {}

\* the first config was sent to the client, which failed; the run went on
\* and the second config, which references the first, was processed
C31_Witness ==
    /\ Len(processed) >= 2 /\ ~StopsOnError(opts)
    /\ DeploymentFailed(1) /\ "client" \in ErrorKinds(1) /\ CallsFor(1) # {}
    /\ ~sortedConfigs[2].Skip /\ IsDeployable(2)
    /\ \E p \in ReferenceParams(2) : References(2, p, 1)
    /\ ErrorKinds(2) = {"resolution"} /\ CallsFor(2) = {}

(***************************************************************************)
(* Part 2: loading a project -- newProject and the topological sorter      *)
(***************************************************************************)
\* number of configs of the project that is loaded
MaxProjectConfigs == 3

\* the nil error and the nil project
NoError == [kind |-> "none", names |-> {}]
NoProject == [Id |-> "nil", Configs |-> <<>>]

\* the configs readFolder finds, in the order it finds them: config i with
\* the configs it references (never itself)
ProjectInputs ==
    { [i \in 1..MaxProjectConfigs |-> [id |-> i, refs |-> deps[i]]] :
        deps \in { d \in [1..MaxProjectConfigs -> SUBSET (1..MaxProjectConfigs)] :
                     \A i \in 1..MaxProjectConfigs : i \notin d[i] } }

\* the ids of a list of configs
IdsOf(configs) == { configs[k].id : k \in DOMAIN configs }

\* the config of the list with this id
ConfigOf(configs, id) == CHOOSE c \in { configs[k] : k \in DOMAIN configs } : c.id = id

RECURSIVE TopologySort(_, _, _)
\* topological sort, ties broken by the order of the coordinates: append
\* the least config all of whose references are already placed; when none
\* is left to place although configs remain, those are reported
TopologySort(configs, remaining, sorted) ==
    LET ready == { n \in remaining : ConfigOf(configs, n).refs \cap remaining = {} }
        least == CHOOSE n \in ready : \A m \in ready : n <= m
    IN IF remaining = {} THEN [sorted |-> sorted, unresolved |-> {}]
       ELSE IF ready = {} THEN [sorted |-> sorted, unresolved |-> remaining]
       ELSE TopologySort(configs, remaining \ {least},
                         Append(sorted, ConfigOf(configs, least)))

\* sortConfigurations(configs): the sorted list, or an error naming the
\* configs that cannot be ordered
sortConfigurations(configs) ==
    LET r == TopologySort(configs, IdsOf(configs), <<>>)
    IN IF r.unresolved = {}
       THEN [configs |-> r.sorted, err |-> NoError]
       ELSE [configs |-> <<>>, err |-> [kind |-> "sort", names |-> r.unresolved]]

\* faulty variants of sortConfigsAccordingToDependencies: the sorted list is
\* not stored, and the result is stored whatever the error
sortConfigsKeepsOrder(builder) ==
    [builder |-> builder, err |-> sortConfigurations(builder.configs).err]
sortConfigsStoresAlways(builder) ==
    LET r == sortConfigurations(builder.configs)
    IN [builder |-> [builder EXCEPT !.configs = r.configs], err |-> r.err]

\* projectBuilder.sortConfigsAccordingToDependencies: the builder after the
\* call and the error returned
sortConfigsAccordingToDependencies(builder) ==
    LET r == sortConfigurations(builder.configs)
    IN IF r.err = NoError
       THEN [builder |-> [builder EXCEPT !.configs = r.configs], err |-> r.err]
       ELSE [builder |-> builder, err |-> r.err]

\* faulty variant of ProjectOrError: the sorting error is dropped
ProjectDespiteError(builder, err) ==
    [project |-> [Id |-> builder.projectId, Configs |-> builder.configs], err |-> NoError]

\* newProject, lines 76-88: the sorting error, or the project
ProjectOrError(builder, err) ==
    IF err # NoError
    THEN [project |-> NoProject, err |-> err]
    ELSE [project |-> [Id |-> builder.projectId, Configs |-> builder.configs],
          err |-> NoError]

\* the state of the other parts while a project is loaded
LoaderOthersIdle ==
    /\ sortedConfigs = <<>> /\ opts = Idle /\ pc = "idle" /\ idx = 0
    /\ entityMap = Idle /\ errors = <<>> /\ calls = <<>> /\ puts = <<>>
    /\ processed = <<>>
    /\ tenant = Idle /\ rateLimit = Idle /\ pure = Idle
    /\ download = Idle /\ deleter = Idle /\ parallel = Idle

LoaderInit ==
    /\ LoaderOthersIdle
    /\ \E input \in ProjectInputs, readable \in BOOLEAN :
          loader = [pc |-> "read", input |-> input, readable |-> readable,
                    builder |-> [projectId |-> "p", configs |-> <<>>],
                    err |-> NoError,
                    result |-> [project |-> NoProject, err |-> NoError]]

\* newProject, lines 56-74: the builder reads the folder
ReadFolder ==
    /\ loader.pc = "read"
    /\ loader' =
          IF loader.readable
          THEN [loader EXCEPT !.pc = "sort", !.builder.configs = loader.input]
          ELSE [loader EXCEPT !.pc = "returned", !.err = [kind |-> "read", names |-> {}],
                              !.result = [project |-> NoProject,
                                          err |-> [kind |-> "read", names |-> {}]]]
    /\ UNCHANGED <<deployVars, tenant, rateLimit, pure, laterParts>>

\* newProject, line 76
SortConfigs ==
    /\ loader.pc = "sort"
    /\ LET r == sortConfigsAccordingToDependencies(loader.builder)
       IN loader' = [loader EXCEPT !.pc = "sorted", !.builder = r.builder, !.err = r.err]
    /\ UNCHANGED <<deployVars, tenant, rateLimit, pure, laterParts>>

\* newProject, lines 77-88
ReturnProject ==
    /\ loader.pc = "sorted"
    /\ loader' = [loader EXCEPT !.pc = "returned",
                                !.result = ProjectOrError(loader.builder, loader.err)]
    /\ UNCHANGED <<deployVars, tenant, rateLimit, pure, laterParts>>

LoaderNext == ReadFolder \/ SortConfigs \/ ReturnProject

LoaderSpec == LoaderInit /\ [][LoaderNext]_vars

\* config a of the input references config b
RefersTo(a, b) == b \in loader.input[a].refs

\* the configs config a reaches over one or more references
RECURSIVE ReachableFrom(_, _)
ReachableFrom(seen, frontier) ==
    LET next == UNION { loader.input[n].refs : n \in frontier } \ seen
    IN IF next = {} THEN seen ELSE ReachableFrom(seen \cup next, next)

\* the configs that lie on a cycle of references
OnCycle == { n \in DOMAIN loader.input : n \in ReachableFrom({}, {n}) }

\* position of the config with this id in a list
IndexIn(configs, id) == CHOOSE k \in DOMAIN configs : configs[k].id = id

\* C11: the order the sorter produces is a permutation of the input in
\* which every referenced config stands before the config that references
\* it; it is the list the loaded project holds
C11_SortedOrderRespectsReferences ==
    (loader.pc \in {"sorted", "returned"} /\ loader.readable /\ loader.err = NoError) =>
        LET out == loader.builder.configs IN
        /\ Len(out) = Len(loader.input)
        /\ \A k \in DOMAIN loader.input :
              \E j \in DOMAIN out : out[j] = loader.input[k]
        /\ \A j, k \in DOMAIN out : j # k => out[j].id # out[k].id
        /\ \A a, b \in DOMAIN loader.input :
              RefersTo(a, b) => IndexIn(out, b) < IndexIn(out, a)
        /\ loader.pc = "returned" =>
              /\ loader.result.err = NoError
              /\ loader.result.project.Configs = out

\* C11 witness: a project whose first config references the last one was
\* loaded, the last config standing first
C11_Witness ==
    /\ loader.pc = "returned" /\ loader.err = NoError /\ loader.readable
    /\ RefersTo(1, MaxProjectConfigs) /\ RefersTo(2, 1)
    /\ loader.result.project.Configs[1].id = MaxProjectConfigs

\* C12: when the references form a cycle, sorting fails with an error that
\* names every config on the cycle, the builder's list is not replaced,
\* and loading the project fails
C12_CycleFailsLoading ==
    (loader.pc \in {"sorted", "returned"} /\ loader.readable /\ OnCycle # {}) =>
        /\ loader.err # NoError
        /\ loader.err.kind = "sort"
        /\ OnCycle \subseteq loader.err.names
        /\ loader.builder.configs = loader.input
        /\ loader.pc = "returned" =>
              /\ loader.result.project = NoProject
              /\ loader.result.err = loader.err

\* C12 witness: X references Y and Y references X, and loading failed
C12_Witness ==
    /\ loader.pc = "returned" /\ loader.readable
    /\ RefersTo(1, 2) /\ RefersTo(2, 1) /\ OnCycle = {1, 2}
    /\ loader.result.project = NoProject
    /\ {1, 2} \subseteq loader.result.err.names

(***************************************************************************)
(* Part 3: a run of DeployConfigs and its re-run against one tenant        *)
(***************************************************************************)
\* the key the tenant files the object of an upsert under
TenantKey(call) ==
    IF call.op = "UpsertConfigByName"
    THEN [api |-> call.api, by |-> "name", key |-> call.name, origin |-> ""]
    ELSE IF call.op = "UpsertConfigByNonUniqueNameAndId"
    THEN [api |-> call.api, by |-> "id", key |-> call.id, origin |-> ""]
    ELSE [api |-> call.api, by |-> "settings", key |-> call.id,
          origin |-> call.originObjectId]

\* the answer of a tenant that is idempotent by key: the object of the
\* key, created by the first upsert and updated by the later ones
TenantAnswer(call) ==
    LET k == TenantKey(call)
    IN [ok |-> TRUE,
        Id |-> IF k.by = "id" THEN k.key ELSE k.by \o "-object-of-" \o k.key,
        Name |-> IF k.by = "settings" THEN "object-of-" \o k.key ELSE call.name]

\* the answer handed to deployConfig / deploySetting to learn which call
\* they issue
ProbeAnswer == [ok |-> TRUE, Id |-> "", Name |-> ""]

\* the answer of the tenant to the call a step issues, if it issues one
TenantAnswerTo(issued) ==
    IF Len(issued) = 0 THEN ProbeAnswer ELSE TenantAnswer(issued[1])

\* the tenant after the calls of one step
TenantAfter(issued) ==
    [tenant EXCEPT
        !.objects = @ \cup { TenantKey(issued[k]) : k \in DOMAIN issued },
        !.writes = @ \cup { [run |-> tenant.run, coord |-> issued[k].coord,
                             key |-> TenantKey(issued[k])] : k \in DOMAIN issued }]

RerunInit ==
    /\ sortedConfigs \in ConfigLists
    /\ opts \in [ContinueOnErr : BOOLEAN, DryRun : BOOLEAN]
    /\ pc = "loop"
    /\ idx = 1
    /\ entityMap = NewEntityMap(ApiMap)
    /\ errors = <<>>
    /\ calls = <<>>
    /\ puts = <<>>
    /\ processed = <<>>
    /\ tenant = [pc |-> "run", run |-> 1, objects |-> {}, writes |-> {},
                 firstObjects |-> {}, firstErrors |-> <<>>]
    /\ loader = Idle /\ rateLimit = Idle /\ pure = Idle
    /\ download = Idle /\ deleter = Idle /\ parallel = Idle

RerunSkipConfig ==
    /\ tenant.pc = "run"
    /\ SkipStep
    /\ UNCHANGED otherParts

RerunDeployEntities ==
    /\ tenant.pc = "run"
    /\ pc = "loop" /\ idx <= Len(sortedConfigs)
    /\ LET c == sortedConfigs[idx] IN
        /\ ~c.Skip /\ c.Kind = "entities"
        /\ Conclude(c, Outcome(ZeroEntity, <<>>, <<>>))
    /\ UNCHANGED otherParts

RerunDeploySettings ==
    /\ tenant.pc = "run"
    /\ pc = "loop" /\ idx <= Len(sortedConfigs)
    /\ LET c == sortedConfigs[idx]
           probe == deploySetting(ProbeAnswer, entityMap, c)
           outcome == deploySetting(TenantAnswerTo(probe.calls), entityMap, c)
       IN
        /\ ~c.Skip /\ c.Kind = "settings"
        /\ Conclude(c, outcome)
        /\ tenant' = TenantAfter(outcome.calls)
    /\ UNCHANGED <<loader, rateLimit, pure, laterParts>>

RerunDeployClassic ==
    /\ tenant.pc = "run"
    /\ pc = "loop" /\ idx <= Len(sortedConfigs)
    /\ LET c == sortedConfigs[idx]
           probe == deployConfig(ProbeAnswer, ApiMap, entityMap, c)
           outcome == deployConfig(TenantAnswerTo(probe.calls), ApiMap, entityMap, c)
       IN
        /\ ~c.Skip /\ c.Kind = "api"
        /\ Conclude(c, outcome)
        /\ tenant' = TenantAfter(outcome.calls)
    /\ UNCHANGED <<loader, rateLimit, pure, laterParts>>

RerunReturn ==
    /\ tenant.pc = "run"
    /\ ReturnStep
    /\ UNCHANGED otherParts

\* DeployConfigs is called again with the same configs and options
RunAgain ==
    /\ tenant.pc = "run" /\ tenant.run = 1 /\ pc = "done"
    /\ tenant' = [tenant EXCEPT !.run = 2, !.firstObjects = tenant.objects,
                                !.firstErrors = errors]
    /\ pc' = "loop"
    /\ idx' = 1
    /\ entityMap' = NewEntityMap(ApiMap)
    /\ errors' = <<>>
    /\ calls' = <<>>
    /\ puts' = <<>>
    /\ processed' = <<>>
    /\ UNCHANGED <<sortedConfigs, opts, loader, rateLimit, pure, laterParts>>

RerunNext ==
    \/ RerunSkipConfig \/ RerunDeployEntities \/ RerunDeploySettings
    \/ RerunDeployClassic \/ RerunReturn \/ RunAgain

RerunSpec == RerunInit /\ [][RerunNext]_vars

\* the config of the run with this Coordinate
ConfigWith(coord) ==
    CHOOSE c \in { sortedConfigs[k] : k \in DOMAIN sortedConfigs } : c.Coordinate = coord

\* the key a config is to be upserted under
StableKey(c) ==
    IF c.Kind = "settings"
    THEN [api |-> c.Coordinate.Type, by |-> "settings", key |-> c.Coordinate.ConfigId,
          origin |-> c.OriginObjectId]
    ELSE IF ApiMap[c.Coordinate.Type].NonUniqueName
    THEN [api |-> c.Coordinate.Type, by |-> "id",
          key |-> IF IsUuidOrMeId(c.Coordinate.ConfigId) THEN c.Coordinate.ConfigId
                  ELSE GenerateUuidFromConfigId(c.Coordinate.Project,
                                                c.Coordinate.ConfigId),
          origin |-> ""]
    ELSE [api |-> c.Coordinate.Type, by |-> "name",
          key |-> c.Parameters[NameParameter].value, origin |-> ""]

\* the writes of one run, without the run number
WritesOf(run) ==
    { [coord |-> w.coord, key |-> w.key] : w \in { v \in tenant.writes : v.run = run } }

\* C13: a re-run with the same configs against a tenant that is idempotent
\* by key creates no further object: every upsert of a Coordinate goes to
\* one key, the key named for its kind of config, the second run issues
\* the upserts of the first, and the tenant holds the objects of the first
C13_RerunCreatesNoObject ==
    /\ \A w \in tenant.writes : w.key = StableKey(ConfigWith(w.coord))
    /\ \A v, w \in tenant.writes : v.coord = w.coord => v.key = w.key
    /\ tenant.run = 2 =>
          /\ tenant.objects = tenant.firstObjects
          /\ WritesOf(2) \subseteq WritesOf(1)
          /\ pc = "done" => (WritesOf(2) = WritesOf(1) /\ errors = tenant.firstErrors)

\* C13 witness: both runs are over and upserted a config of a
\* non-unique-name API under its own UUID configId and another under the
\* UUID generated from project and configId
C13_Witness ==
    /\ tenant.run = 2 /\ pc = "done"
    /\ \E v, w \in tenant.writes :
          /\ v.run = 2 /\ w.run = 2
          /\ v.key.by = "id" /\ w.key.by = "id"
          /\ IsUuidOrMeId(v.coord.ConfigId) /\ v.key.key = v.coord.ConfigId
          /\ ~IsUuidOrMeId(w.coord.ConfigId)
          /\ w.key.key = GenerateUuidFromConfigId(w.coord.Project, w.coord.ConfigId)
    /\ Cardinality(tenant.objects) = MaxConfigs

(***************************************************************************)
(* Part 4: idutils.GenerateExternalID                                      *)
(***************************************************************************)
\* the longest ID the function is applied to
MaxIdLen == 800

\* the lengths of the schema ids the function is applied to
SchemaLens == {0, 12, 40}

\* const prefix = "monaco:"
prefix == "monaco:"

\* const externalIDMaxLength = 500
externalIDMaxLength == 500

\* A string whose characters do not matter is its length; a string with a
\* known head is the head and the length of what follows it.
\* len(fmt.Sprintf("%s$%s", schema, ID))
FormattedLen(schemaLen, idLen) == schemaLen + 1 + idLen

\* len(base64.StdEncoding.EncodeToString(b)) for len(b) = n: four
\* characters per group of three bytes begun
Base64Len(n) == 4 * ((n + 2) \div 3)

\* len(s[from:])
SliceFromLen(len, from) == len - from

\* GenerateExternalID(schema, ID): the head and the length of the encoded
\* part of the returned string
GenerateExternalID(schemaLen, idLen) ==
    LET encodedLen == Base64Len(FormattedLen(schemaLen, idLen))
        encodedIDMaxLength == externalIDMaxLength - Len(prefix)
        kept == IF encodedLen > encodedIDMaxLength
                THEN SliceFromLen(encodedLen, encodedIDMaxLength)
                ELSE encodedLen
    IN [head |-> "monaco:", rest |-> kept]

\* len(externalID)
ExternalIdLen(id) == Len(id.head) + id.rest

ExternalIdInit ==
    /\ sortedConfigs = <<>> /\ opts = Idle /\ pc = "idle" /\ idx = 0
    /\ entityMap = Idle /\ errors = <<>> /\ calls = <<>> /\ puts = <<>>
    /\ processed = <<>>
    /\ tenant = Idle /\ loader = Idle /\ rateLimit = Idle
    /\ download = Idle /\ deleter = Idle /\ parallel = Idle
    /\ \E schemaLen \in SchemaLens, idLen \in 0..MaxIdLen :
          pure = [pc |-> "call", schemaLen |-> schemaLen, idLen |-> idLen,
                  result |-> [head |-> "", rest |-> 0]]

CallGenerateExternalID ==
    /\ pure.pc = "call"
    /\ pure' = [pure EXCEPT !.pc = "returned",
                            !.result = GenerateExternalID(pure.schemaLen, pure.idLen)]
    /\ UNCHANGED <<deployVars, tenant, loader, rateLimit, laterParts>>

ExternalIdNext == CallGenerateExternalID

ExternalIdSpec == ExternalIdInit /\ [][ExternalIdNext]_vars

\* C15: whatever the lengths of schema and id, the external ID returned
\* starts with monaco: and is at most 500 characters long
C15_ExternalIdAtMost500 ==
    pure.pc = "returned" =>
        /\ pure.result.head = "monaco:"
        /\ ExternalIdLen(pure.result) <= 500

(***************************************************************************)
(* Part 5: the rate limit strategy simpleSleepRateLimitStrategy            *)
(* Durations and points in time are counted in microseconds; the integers  *)
(* of TLC end at 2147 seconds, so 2000 seconds stand for a duration far    *)
(* above maxWait (the hour of the tests).                                  *)
(***************************************************************************)
\* time.Second.Microseconds()
MicrosPerSecond == 1000000

minWaitDuration == 1 * MicrosPerSecond
maxWaitDuration == 60 * MicrosPerSecond

\* faulty variant of applyMinMaxDefaults: the lower limit is not applied
applyMaxOnly(d) == IF d > maxWaitDuration THEN maxWaitDuration ELSE d

\* applyMinMaxDefaults(sleepDuration)
applyMinMaxDefaults(d) ==
    IF d < minWaitDuration THEN minWaitDuration
    ELSE IF d > maxWaitDuration THEN maxWaitDuration
    ELSE d

\* the durations applyMinMaxDefaults is applied to: those of its tests
\* (6s, 59s, 500ms, -19s, 61s, and 2000s for the hour) and those next to
\* the two limits
DurationChoices ==
    { 6 * MicrosPerSecond, 59 * MicrosPerSecond, MicrosPerSecond \div 2,
      -19 * MicrosPerSecond, 61 * MicrosPerSecond, 2000 * MicrosPerSecond,
      0, minWaitDuration - 1, minWaitDuration, minWaitDuration + 1,
      maxWaitDuration - 1, maxWaitDuration, maxWaitDuration + 1 }

ClampInit ==
    /\ sortedConfigs = <<>> /\ opts = Idle /\ pc = "idle" /\ idx = 0
    /\ entityMap = Idle /\ errors = <<>> /\ calls = <<>> /\ puts = <<>>
    /\ processed = <<>>
    /\ tenant = Idle /\ loader = Idle /\ rateLimit = Idle
    /\ download = Idle /\ deleter = Idle /\ parallel = Idle
    /\ \E d1 \in DurationChoices, d2 \in DurationChoices :
          pure = [pc |-> "call", d1 |-> d1, d2 |-> d2, r1 |-> 0, r2 |-> 0]

CallApplyMinMaxDefaults ==
    /\ pure.pc = "call"
    /\ pure' = [pure EXCEPT !.pc = "returned",
                            !.r1 = applyMinMaxDefaults(pure.d1),
                            !.r2 = applyMinMaxDefaults(pure.d2)]
    /\ UNCHANGED <<deployVars, tenant, loader, rateLimit, laterParts>>

ClampNext == CallApplyMinMaxDefaults

ClampSpec == ClampInit /\ [][ClampNext]_vars

\* C18: applyMinMaxDefaults maps every duration up to minWait (negative
\* ones too) to minWait, every duration from maxWait on to maxWait and any
\* other to itself; it is monotonic and its result lies in [minWait, maxWait]
C18_ClampToMinMax ==
    pure.pc = "returned" =>
        /\ pure.d1 <= 1 * MicrosPerSecond => pure.r1 = 1 * MicrosPerSecond
        /\ pure.d1 >= 60 * MicrosPerSecond => pure.r1 = 60 * MicrosPerSecond
        /\ (pure.d1 > 1 * MicrosPerSecond /\ pure.d1 < 60 * MicrosPerSecond) =>
              pure.r1 = pure.d1
        /\ pure.d1 <= pure.d2 => pure.r1 <= pure.r2
        /\ 1 * MicrosPerSecond <= pure.r1 /\ pure.r1 <= 60 * MicrosPerSecond

\* C18 witness: a negative duration became minWait and one of 2000
\* seconds became maxWait
C18_Witness ==
    /\ pure.pc = "returned"
    /\ pure.d1 = -19 * MicrosPerSecond /\ pure.r1 = 1 * MicrosPerSecond
    /\ pure.d2 = 2000 * MicrosPerSecond /\ pure.r2 = 60 * MicrosPerSecond

(***************************************************************************)
(* executeRequest                                                          *)
(***************************************************************************)
\* the most 429 answers the callback gives before its last answer
MaxThrottled == 3

\* decimal digits, as the characters of a header value
Digits == <<"0", "1", "2", "3", "4", "5", "6", "7", "8", "9">>

RECURSIVE FormatNat(_)
FormatNat(n) ==
    IF n < 10 THEN <<Digits[n + 1]>>
    ELSE Append(FormatNat(n \div 10), Digits[(n % 10) + 1])

\* strconv.FormatInt(i, 10): the characters of the decimal numeral
FormatInt(i) == IF i < 0 THEN <<"-">> \o FormatNat(0 - i) ELSE FormatNat(i)

IsDigit(c) == \E d \in 1..10 : Digits[d] = c

DigitValue(c) == (CHOOSE d \in 1..10 : Digits[d] = c) - 1

\* the number the first k characters are the decimal numeral of
RECURSIVE ParseDigits(_, _)
ParseDigits(chars, k) ==
    IF k = 0 THEN 0 ELSE 10 * ParseDigits(chars, k - 1) + DigitValue(chars[k])

ParseNat(chars) == ParseDigits(chars, Len(chars))

\* strconv.ParseInt(s, 10, 64): the number, or ok = FALSE
ParseInt(chars) ==
    LET digits == IF Len(chars) > 0 /\ chars[1] = "-" THEN Tail(chars) ELSE chars
    IN IF Len(digits) = 0 \/ \E k \in DOMAIN digits : ~IsDigit(digits[k])
       THEN [ok |-> FALSE, value |-> 0]
       ELSE [ok |-> TRUE,
             value |-> IF chars[1] = "-" THEN 0 - ParseNat(digits) ELSE ParseNat(digits)]

\* a response without headers
NoHeaders == << >>

\* createTestHeaders(resetTimestamp)
createTestHeaders(resetTimestamp) ==
    [h \in {"X-Ratelimit-Limit", "X-Ratelimit-Reset"} |->
        IF h = "X-Ratelimit-Limit" THEN <<"2", "0">> ELSE FormatInt(resetTimestamp)]

\* the headers of TestRateLimitHeaderExtractionForInvalidHeader
InvalidResetHeaders ==
    [createTestHeaders(0) EXCEPT !["X-Ratelimit-Reset"] = <<"n", "o", "t">>]

\* the headers a 429 answer of the callback carries
HeaderChoices ==
    { createTestHeaders(42 * MicrosPerSecond), createTestHeaders(0),
      createTestHeaders(2000 * MicrosPerSecond), NoHeaders, InvalidResetHeaders }

\* rest.Response, and the error handed back with it ("" = nil)
Response(status, headers) == [StatusCode |-> status, Headers |-> headers]
EmptyResponse == Response(0, NoHeaders)
Answer(response, err) == [response |-> response, err |-> err]

\* the last answers of the callback: 200, another status, or an error
FinalAnswers ==
    { Answer(Response(200, NoHeaders), ""), Answer(Response(404, NoHeaders), ""),
      Answer(EmptyResponse, "foo Error") }

\* the points in time the timeline provider's Now() returns
NowChoices == {0, 10 * MicrosPerSecond}

\* the random parts of a generated sleep: 1 .. minWait microseconds
RandomChoices == {1, minWaitDuration}

\* extractRateLimitHeaders(response): limit and reset time in
\* microseconds, or the error
extractRateLimitHeaders(response) ==
    LET h == response.Headers
    IN IF "X-Ratelimit-Limit" \notin DOMAIN h \/ "X-Ratelimit-Reset" \notin DOMAIN h
       THEN [limit |-> <<>>, reset |-> 0, err |-> "rate limit header not found"]
       ELSE IF ~ParseInt(h["X-Ratelimit-Reset"]).ok
       THEN [limit |-> <<>>, reset |-> 0, err |-> "not a valid unix timestamp"]
       ELSE [limit |-> h["X-Ratelimit-Limit"],
             reset |-> ParseInt(h["X-Ratelimit-Reset"]).value, err |-> ""]

\* faulty variant of generateSleepDuration: a multiplier of 0 is used as it is
generateSleepDurationTimesZero(backoffMultiplier, random) ==
    (minWaitDuration + random) * backoffMultiplier

\* generateSleepDuration(backoffMultiplier, timelineProvider): minWait plus
\* a random part, times the multiplier, which is at least 1
generateSleepDuration(backoffMultiplier, random) ==
    LET m == IF backoffMultiplier < 1 THEN 1 ELSE backoffMultiplier
    IN (minWaitDuration + random) * m

\* faulty variant of SleepUntilReset: the limits are not applied
SleepUntilResetUnclamped(reset, now) == reset - now

\* the sleep of executeRequest when the headers are valid
SleepUntilReset(reset, now) == applyMinMaxDefaults(reset - now)

\* faulty variants of IsThrottled: every status above 400 is retried, and
\* nothing is
IsThrottledAnyFailure(response) == response.StatusCode > 400
IsThrottledNever(response) == FALSE

\* the retry trigger of executeRequest
IsThrottled(response) == response.StatusCode = 429

\* the callback of the tests: 429 with headers while fewer than
\* `throttled` invocations were made, then its last answer
Callback(st, headers) ==
    IF st.invocations < st.throttled
    THEN Answer(Response(429, headers), "")
    ELSE st.final

RateLimitInit ==
    /\ sortedConfigs = <<>> /\ opts = Idle /\ pc = "idle" /\ idx = 0
    /\ entityMap = Idle /\ errors = <<>> /\ calls = <<>> /\ puts = <<>>
    /\ processed = <<>>
    /\ tenant = Idle /\ loader = Idle /\ pure = Idle
    /\ download = Idle /\ deleter = Idle /\ parallel = Idle
    /\ \E n \in 0..MaxThrottled, final \in FinalAnswers :
          rateLimit = [pc |-> "start", throttled |-> n, final |-> final,
                       invocations |-> 0, iteration |-> 0,
                       response |-> EmptyResponse, sleeps |-> <<>>,
                       events |-> <<>>, result |-> Answer(EmptyResponse, "")]

\* the strategy after an answer of the callback: an error is returned at
\* once, a response is looked at by the loop
AfterCallback(st, answer) ==
    IF answer.err # ""
    THEN [st EXCEPT !.pc = "returned", !.invocations = @ + 1,
                    !.events = Append(@, "callback"), !.result = answer]
    ELSE [st EXCEPT !.pc = "loop", !.invocations = @ + 1,
                    !.events = Append(@, "callback"), !.response = answer.response]

\* the strategy after Now() was read and Sleep(d) returned
AfterSleep(st, sleep) ==
    [st EXCEPT !.sleeps = Append(@, sleep), !.events = @ \o <<"Now", "Sleep">>,
               !.iteration = @ + 1]

\* executeRequest: the first invocation of the callback
CallCallback ==
    /\ rateLimit.pc = "start"
    /\ \E headers \in HeaderChoices :
          rateLimit' = AfterCallback(rateLimit, Callback(rateLimit, headers))
    /\ UNCHANGED <<deployVars, tenant, loader, pure, laterParts>>

\* executeRequest: a 429 with valid headers; sleep until the reset time,
\* invoke the callback again
RetryAfterReset ==
    /\ rateLimit.pc = "loop" /\ IsThrottled(rateLimit.response)
    /\ extractRateLimitHeaders(rateLimit.response).err = ""
    /\ \E now \in NowChoices, headers \in HeaderChoices :
          LET reset == extractRateLimitHeaders(rateLimit.response).reset
              slept == AfterSleep(rateLimit,
                          [kind |-> "reset", headers |-> rateLimit.response.Headers,
                           now |-> now, multiplier |-> 0,
                           duration |-> SleepUntilReset(reset, now)])
          IN rateLimit' = AfterCallback(slept, Callback(slept, headers))
    /\ UNCHANGED <<deployVars, tenant, loader, pure, laterParts>>

\* executeRequest: a 429 whose headers are missing or malformed; sleep a
\* generated duration, invoke the callback again (the time Now() returns
\* here goes into the log line only)
RetryAfterGenerated ==
    /\ rateLimit.pc = "loop" /\ IsThrottled(rateLimit.response)
    /\ extractRateLimitHeaders(rateLimit.response).err # ""
    /\ \E random \in RandomChoices, headers \in HeaderChoices :
          LET slept == AfterSleep(rateLimit,
                          [kind |-> "generated", headers |-> rateLimit.response.Headers,
                           now |-> 0, multiplier |-> rateLimit.iteration,
                           duration |-> generateSleepDuration(rateLimit.iteration,
                                                              random)])
          IN rateLimit' = AfterCallback(slept, Callback(slept, headers))
    /\ UNCHANGED <<deployVars, tenant, loader, pure, laterParts>>

\* executeRequest: a response that is not a 429 is returned
ReturnResponse ==
    /\ rateLimit.pc = "loop" /\ ~IsThrottled(rateLimit.response)
    /\ rateLimit' = [rateLimit EXCEPT !.pc = "returned",
                                      !.result = Answer(rateLimit.response, "")]
    /\ UNCHANGED <<deployVars, tenant, loader, pure, laterParts>>

RateLimitNext == CallCallback \/ RetryAfterReset \/ RetryAfterGenerated \/ ReturnResponse

RateLimitSpec == RateLimitInit /\ [][RateLimitNext]_vars

\* the events without the reads of the clock
WithoutNow(events) == SelectSeq(events, LAMBDA e : e # "Now")

\* C16: a callback that answers 429 N times and then 200: executeRequest
\* returns the 200 after N+1 invocations and N sleeps, each sleep between
\* two invocations. It terminates: until it has returned a step can be
\* taken, every step invokes the callback or returns, and the callback is
\* invoked at most N+1 times (at most N times while the answer at hand is a
\* 429)
C16_RetriesUntilSuccess ==
    rateLimit.final.response.StatusCode = 200 =>
        /\ rateLimit.pc # "returned" => ENABLED RateLimitNext
        /\ rateLimit.invocations <= rateLimit.throttled + 1
        /\ (rateLimit.pc = "loop" /\ IsThrottled(rateLimit.response)) =>
              rateLimit.invocations <= rateLimit.throttled
        /\ rateLimit.pc = "returned" =>
              /\ rateLimit.result = Answer(Response(200, NoHeaders), "")
              /\ rateLimit.invocations = rateLimit.throttled + 1
              /\ Len(rateLimit.sleeps) = rateLimit.throttled
              /\ LET ev == WithoutNow(rateLimit.events) IN
                    /\ Len(ev) = 2 * rateLimit.throttled + 1
                    /\ \A k \in DOMAIN ev :
                          ev[k] = IF k % 2 = 1 THEN "callback" ELSE "Sleep"

\* C16 witness: two 429 answers, two sleeps of 42s, then the 200
C16_Witness ==
    /\ rateLimit.pc = "returned" /\ rateLimit.throttled = 2
    /\ rateLimit.result.response.StatusCode = 200
    /\ rateLimit.invocations = 3
    /\ Len(rateLimit.sleeps) = 2
    /\ \A k \in 1..2 : rateLimit.sleeps[k].duration = 42 * MicrosPerSecond

\* the reset times of the headers the tests build
ResetChoices == {0, 42 * MicrosPerSecond, 2000 * MicrosPerSecond}

\* C17: after a 429 with valid headers the strategy sleeps reset - Now(),
\* held within [1s, 60s], and reads Now() once per retry
C17_SleepsUntilReset ==
    /\ \A k \in DOMAIN rateLimit.sleeps :
          LET sl == rateLimit.sleeps[k] IN
          \A reset \in ResetChoices :
              sl.headers = createTestHeaders(reset) =>
                  /\ sl.kind = "reset"
                  /\ sl.duration =
                        IF reset - sl.now < 1 * MicrosPerSecond THEN 1 * MicrosPerSecond
                        ELSE IF reset - sl.now > 60 * MicrosPerSecond
                             THEN 60 * MicrosPerSecond
                        ELSE reset - sl.now
    /\ \A k \in DOMAIN rateLimit.events :
          rateLimit.events[k] = "Sleep" =>
              /\ rateLimit.events[k - 1] = "Now"
              /\ rateLimit.events[k - 2] = "callback"

\* C17 witness: reset 42,000,000 microseconds, Now() = 0: Sleep(42s); and
\* with Now() = 10s a sleep of 32s; a reset in the past and one far ahead
\* give the two limits
C17_Witness ==
    /\ Len(rateLimit.sleeps) = 3
    /\ rateLimit.sleeps[1].headers = createTestHeaders(42000000)
    /\ rateLimit.sleeps[1].now = 0 /\ rateLimit.sleeps[1].duration = 42000000
    /\ rateLimit.sleeps[2].headers = createTestHeaders(0)
    /\ rateLimit.sleeps[2].duration = 1000000
    /\ rateLimit.sleeps[3].headers = createTestHeaders(2000000000)
    /\ rateLimit.sleeps[3].duration = 60000000

\* C19: after a 429 whose headers are missing or malformed the strategy
\* sleeps a generated duration d, m * minWait < d <= 2 * m * minWait with
\* m = max(1, multiplier), and invokes the callback again
C19_GeneratedSleepWithinBounds ==
    /\ \A k \in DOMAIN rateLimit.sleeps :
          LET sl == rateLimit.sleeps[k]
              m == IF sl.multiplier > 1 THEN sl.multiplier ELSE 1
          IN (sl.headers = NoHeaders \/ sl.headers = InvalidResetHeaders) =>
                /\ sl.kind = "generated"
                /\ m * 1 * MicrosPerSecond < sl.duration
                /\ sl.duration <= 2 * m * 1 * MicrosPerSecond
                /\ sl.multiplier = 0 =>
                      (1000000 < sl.duration /\ sl.duration <= 2000000)
                /\ rateLimit.invocations >= k + 1
    /\ \A k \in DOMAIN rateLimit.events :
          (rateLimit.events[k] = "Sleep" /\ rateLimit.pc = "returned") =>
              (k < Len(rateLimit.events) /\ rateLimit.events[k + 1] = "callback")

\* C19 witness: a 429 without headers, a first sleep of 2s, then a 429
\* with a malformed reset header, then the 200
C19_Witness ==
    /\ rateLimit.pc = "returned" /\ rateLimit.result.response.StatusCode = 200
    /\ Len(rateLimit.sleeps) = 2
    /\ rateLimit.sleeps[1].headers = NoHeaders
    /\ rateLimit.sleeps[1].duration = 2 * MicrosPerSecond
    /\ rateLimit.sleeps[2].headers = InvalidResetHeaders
    /\ rateLimit.sleeps[2].kind = "generated"

\* C20: an error or a response that is not a 429 is returned as the
\* callback gave it, and nothing follows the invocation that gave it: no
\* Sleep, no Now, no further invocation
C20_OtherAnswersReturnedAsIs ==
    /\ rateLimit.invocations <= rateLimit.throttled + 1
    /\ rateLimit.invocations = rateLimit.throttled + 1 =>
          /\ rateLimit.events[Len(rateLimit.events)] = "callback"
          /\ Len(rateLimit.sleeps) = rateLimit.throttled
    /\ rateLimit.pc = "returned" =>
          /\ rateLimit.result = rateLimit.final
          /\ rateLimit.invocations = rateLimit.throttled + 1
          /\ rateLimit.throttled = 0 =>
                (rateLimit.events = <<"callback">> /\ rateLimit.sleeps = <<>>)

\* C20 witness: the first answer of the callback is the error, and it is
\* what executeRequest returned
C20_Witness ==
    /\ rateLimit.pc = "returned" /\ rateLimit.throttled = 0
    /\ rateLimit.result = Answer(EmptyResponse, "foo Error")
    /\ rateLimit.events = <<"callback">>

(***************************************************************************)
(* Part 6: download of settings 2.0 objects -- convertAllObjects           *)
(***************************************************************************)
\* the most objects ListSettings answers with for the schema converted
MaxObjects == 3

\* the values of settings objects: a JSON object, a JSON object the
\* filter of the schema discards, and a value that is no JSON object
ValueChoices == {"object", "discarded object", "not an object"}

\* the scopes of settings objects
ScopeChoices == {"environment", "HOST-1"}

\* client.DownloadSettingsObject, the k-th the tenant lists for the schema
ObjectAt(schemaId, k, scope, val) ==
    [ObjectId |-> "object-" \o ToString(k) \o "-of-" \o schemaId,
     SchemaId |-> schemaId, SchemaVersion |-> "1.0", Scope |-> scope, Value |-> val]

\* the answers of ListSettings with n objects
ListingsOf(schemaId, n) ==
    { [k \in 1..n |-> ObjectAt(schemaId, k, ch[k][1], ch[k][2])] :
        ch \in [1..n -> ScopeChoices \X ValueChoices] }

\* json.Unmarshal(o.Value, &contentUnmarshalled): into a map, so only a
\* JSON object unmarshals
Unmarshal(val) ==
    IF val = "not an object"
    THEN [err |-> "json: cannot unmarshal", content |-> ""]
    ELSE [err |-> "", content |-> val]

\* d.filters.Get(schemaId).ShouldDiscard(content)
ShouldDiscard(schemaId, content) == content = "discarded object"

\* json.MarshalIndent(o.Value, "", "  ")
MarshalIndent(val) == "indented " \o val

\* idutils.GenerateUuidFromName(name)
GenerateUuidFromName(name) == "uuid(" \o name \o ")"

\* faulty variants of DownloadedConfig: the generated configId taken as
\* origin, and the scope parameter left empty
DownloadedConfigOwnOrigin(o, projectName) ==
    LET configId == GenerateUuidFromName(o.ObjectId)
    IN [Coordinate |-> Coordinate(projectName, o.SchemaId, configId),
        Kind |-> "settings",
        Skip |-> FALSE,
        Parameters |-> (NameParameter :> ValueParameter(configId))
                       @@ (ScopeParameter :> ValueParameter(o.Scope)),
        Template |-> {},
        OriginObjectId |-> configId,
        SchemaId |-> o.SchemaId,
        SchemaVersion |-> o.SchemaVersion,
        Content |-> MarshalIndent(o.Value)]

\* the config.Config built for a settings object (lines 153-172)
DownloadedConfig(o, projectName) ==
    LET configId == GenerateUuidFromName(o.ObjectId)
    IN [Coordinate |-> Coordinate(projectName, o.SchemaId, configId),
        Kind |-> "settings",
        Skip |-> FALSE,
        Parameters |-> (NameParameter :> ValueParameter(configId))
                       @@ (ScopeParameter :> ValueParameter(o.Scope)),
        Template |-> {},
        OriginObjectId |-> o.ObjectId,
        SchemaId |-> o.SchemaId,
        SchemaVersion |-> o.SchemaVersion,
        Content |-> MarshalIndent(o.Value)]

\* faulty variants of AfterParseFailure: the object that does not parse is
\* skipped and the loop goes on; the result so far is thrown away
AfterParseFailureGoesOn(objects, k, result) == [stop |-> FALSE, result |-> result]
AfterParseFailureDropsAll(objects, k, result) == [stop |-> TRUE, result |-> <<>>]

\* lines 134-137: what the loop does at an object that does not parse
AfterParseFailure(objects, k, result) == [stop |-> TRUE, result |-> result]

\* faulty variant of AppendConfig: the config is put in front
PrependConfig(result, c) == <<c>> \o result

\* line 173: result = append(result, c)
AppendConfig(result, c) == Append(result, c)

RECURSIVE ConvertFrom(_, _, _, _)
\* the range loop of convertAllObjects from the k-th object on
ConvertFrom(objects, projectName, k, result) ==
    IF k > Len(objects) THEN result
    ELSE LET o == objects[k]
             parsed == Unmarshal(o.Value)
             failed == AfterParseFailure(objects, k, result)
         IN IF parsed.err # ""
            THEN IF failed.stop THEN failed.result
                 ELSE ConvertFrom(objects, projectName, k + 1, failed.result)
            ELSE IF ShouldDiscard(o.SchemaId, parsed.content)
            THEN ConvertFrom(objects, projectName, k + 1, result)
            ELSE ConvertFrom(objects, projectName, k + 1,
                             AppendConfig(result, DownloadedConfig(o, projectName)))

\* Downloader.convertAllObjects(objects, projectName)
convertAllObjects(objects, projectName) == ConvertFrom(objects, projectName, 1, <<>>)

\* the schema whose objects are converted
ConvertedSchema == "builtin:tags"

RoundTripInit ==
    /\ sortedConfigs = <<>> /\ opts = Idle /\ pc = "idle" /\ idx = 0
    /\ entityMap = Idle /\ errors = <<>> /\ calls = <<>> /\ puts = <<>>
    /\ processed = <<>>
    /\ tenant = Idle /\ loader = Idle /\ rateLimit = Idle
    /\ download = Idle /\ deleter = Idle /\ parallel = Idle
    /\ \E n \in 0..MaxObjects : \E objects \in ListingsOf(ConvertedSchema, n) :
          pure = [pc |-> "call", objects |-> objects, result |-> <<>>]

\* the objects ListSettings answered with are converted
CallConvertAllObjects ==
    /\ pure.pc = "call"
    /\ pure' = [pure EXCEPT !.pc = "converted",
                            !.result = convertAllObjects(pure.objects, "p")]
    /\ UNCHANGED <<deployVars, tenant, loader, rateLimit, laterParts>>

\* DeployConfigs is called with the downloaded configs
DeployDownloaded ==
    /\ pure.pc = "converted"
    /\ pure' = [pure EXCEPT !.pc = "deploying"]
    /\ sortedConfigs' = pure.result
    /\ opts' \in [ContinueOnErr : BOOLEAN, DryRun : {FALSE}]
    /\ pc' = "loop"
    /\ idx' = 1
    /\ entityMap' = NewEntityMap(ApiMap)
    /\ UNCHANGED <<errors, calls, puts, processed, tenant, loader, rateLimit, laterParts>>

RoundTripNext == CallConvertAllObjects \/ DeployDownloaded \/ DeploySettings \/ Return

RoundTripSpec == RoundTripInit /\ [][RoundTripNext]_vars

\* the position of the first listed object whose value does not parse, or
\* one past the last object
FirstParseFailure(objects) ==
    IF \E k \in DOMAIN objects : objects[k].Value = "not an object"
    THEN CHOOSE k \in DOMAIN objects :
            /\ objects[k].Value = "not an object"
            /\ \A j \in 1..(k - 1) : objects[j].Value # "not an object"
    ELSE Len(objects) + 1

\* the objectIds of the objects among the first n that parse and are not
\* discarded, in listing order
SurvivingIds(objects, n) ==
    LET kept == SelectSeq(SubSeq(objects, 1, n), LAMBDA o : o.Value = "object")
    IN [k \in DOMAIN kept |-> kept[k].ObjectId]

\* the originObjectIds of a list of configs
OriginIds(configs) == [k \in DOMAIN configs |-> configs[k].OriginObjectId]

\* the listed object a config was made from
ObjectOf(c) ==
    CHOOSE o \in { pure.objects[k] : k \in DOMAIN pure.objects } :
        o.ObjectId = c.OriginObjectId

\* C25: when the value of the k-th listed object does not parse,
\* conversion stops there: the result is made of the objects among the
\* first k-1 that are not discarded, and of no object listed after them
C25_ParseFailureStopsConversion ==
    (pure.pc # "call" /\ FirstParseFailure(pure.objects) <= Len(pure.objects)) =>
        LET k == FirstParseFailure(pure.objects) IN
        /\ OriginIds(pure.result) = SurvivingIds(pure.objects, k - 1)
        /\ \A j \in k..Len(pure.objects) :
              \A i \in DOMAIN pure.result :
                  pure.result[i].OriginObjectId # pure.objects[j].ObjectId

\* C25 witness: the second of three objects does not parse; the result is
\* the first object alone
C25_Witness ==
    /\ pure.pc = "converted" /\ Len(pure.objects) = 3
    /\ pure.objects[1].Value = "object"
    /\ pure.objects[2].Value = "not an object"
    /\ pure.objects[3].Value = "object"
    /\ OriginIds(pure.result) = <<pure.objects[1].ObjectId>>

\* position of the object with this objectId in the listing
ListedAt(objectId) ==
    CHOOSE k \in DOMAIN pure.objects : pure.objects[k].ObjectId = objectId

\* C27: the configs of a schema stand in the order of their objects in the
\* listing; no discarded object has a config and every object converted
\* has exactly one
C27_ListingOrderKept ==
    pure.pc # "call" =>
        /\ \A i, j \in DOMAIN pure.result :
              i < j => ListedAt(pure.result[i].OriginObjectId)
                         < ListedAt(pure.result[j].OriginObjectId)
        /\ \A i \in DOMAIN pure.result : ObjectOf(pure.result[i]).Value = "object"
        /\ \A k \in 1..(FirstParseFailure(pure.objects) - 1) :
              pure.objects[k].Value = "object" =>
                  Cardinality({ i \in DOMAIN pure.result :
                      pure.result[i].OriginObjectId = pure.objects[k].ObjectId }) = 1

\* C27 witness: of three objects the second is discarded; the configs of
\* the first and the third follow each other
C27_Witness ==
    /\ pure.pc = "converted" /\ Len(pure.objects) = 3
    /\ pure.objects[2].Value = "discarded object"
    /\ OriginIds(pure.result) = <<pure.objects[1].ObjectId, pure.objects[3].ObjectId>>

\* C26: every object that is converted becomes a config with the object's
\* objectId as originObjectId and the object's scope as scope parameter,
\* and the deployment of that config calls UpsertSettings with that
\* originObjectId, the object's schema and the object's scope
C26_OriginIdsSurviveRoundTrip ==
    /\ pure.pc # "call" =>
          /\ \A k \in 1..(FirstParseFailure(pure.objects) - 1) :
                pure.objects[k].Value = "object" =>
                    \E i \in DOMAIN pure.result :
                        /\ pure.result[i].OriginObjectId = pure.objects[k].ObjectId
                        /\ pure.result[i].Parameters[ScopeParameter].value
                              = pure.objects[k].Scope
          /\ \A i \in DOMAIN pure.result :
                pure.result[i].Parameters[ScopeParameter].value
                    = ObjectOf(pure.result[i]).Scope
    /\ pure.pc = "deploying" =>
          /\ \A k \in DOMAIN processed :
                \E c \in DOMAIN calls :
                    /\ calls[c].op = "UpsertSettings"
                    /\ calls[c].coord = sortedConfigs[k].Coordinate
                    /\ calls[c].originObjectId = ObjectOf(sortedConfigs[k]).ObjectId
                    /\ calls[c].api = ObjectOf(sortedConfigs[k]).SchemaId
                    /\ calls[c].scope = ObjectOf(sortedConfigs[k]).Scope
          /\ Len(calls) = Len(processed)

\* C26 witness: two objects of different scopes were downloaded and
\* deployed
C26_Witness ==
    /\ pure.pc = "deploying" /\ pc = "done" /\ Len(calls) = 2
    /\ calls[1].originObjectId = pure.objects[1].ObjectId
    /\ calls[1].scope = "environment"
    /\ calls[2].originObjectId = pure.objects[2].ObjectId
    /\ calls[2].scope = "HOST-1"

(***************************************************************************)
(* Part 7: Downloader.download -- one goroutine per schema                 *)
(***************************************************************************)
\* the most schemas a download is asked for
MaxSchemas == 2

SchemaAt(i) == "builtin:schema-" \o ToString(i)

\* the answers of ListSettings for a schema: an error, no object, or
\* objects that are kept, discarded, or do not parse
ListingChoices(schemaId) ==
    { [err |-> "list failed", objects |-> <<>>] }
    \cup { [err |-> "", objects |-> objects] :
             objects \in { <<>>,
                           <<ObjectAt(schemaId, 1, "environment", "object")>>,
                           <<ObjectAt(schemaId, 1, "environment", "discarded object")>>,
                           <<ObjectAt(schemaId, 1, "environment", "not an object")>>,
                           <<ObjectAt(schemaId, 1, "environment", "object"),
                             ObjectAt(schemaId, 2, "HOST-1", "object")>> } }

\* the answer of a failed ListSettings
ListFailure == [err |-> "list failed", objects |-> <<>>]

\* the schema ids a download of n schemas is asked for, by their numbers.
\* An id may occur more than once; ids are numbered in the order of their
\* first occurrence, which names every list of ids up to renaming
RequestedIds(n) ==
    { ids \in [1..n -> 1..n] :
        \A i \in 1..n : ids[i] = 1 \/ \E j \in 1..(i - 1) : ids[j] + 1 >= ids[i] }

\* a goroutine that was not started yet
TaskIdle == [pc |-> "idle", objects |-> <<>>, configs |-> <<>>]

\* make(v2.ConfigsPerType, len(schemas)): the empty map
EmptyResults == << >>

DownloadInit ==
    /\ sortedConfigs = <<>> /\ opts = Idle /\ pc = "idle" /\ idx = 0
    /\ entityMap = Idle /\ errors = <<>> /\ calls = <<>> /\ puts = <<>>
    /\ processed = <<>>
    /\ tenant = Idle /\ loader = Idle /\ rateLimit = Idle /\ pure = Idle
    /\ deleter = Idle /\ parallel = Idle
    /\ \E n \in 0..MaxSchemas, schemasListed \in BOOLEAN :
       \E ids \in RequestedIds(n) :
       \E answer \in [1..n -> UNION { ListingChoices(SchemaAt(i)) : i \in 1..n }] :
          /\ \A i \in 1..n : answer[i] \in ListingChoices(SchemaAt(i))
          /\ \A i \in 1..n : (\A k \in 1..n : ids[k] # i) => answer[i] = ListFailure
          /\ download = [pc |-> "start", schemasListed |-> schemasListed,
                         schemas |-> [i \in 1..n |-> SchemaAt(ids[i])],
                         listing |-> [i \in 1..n |-> answer[ids[i]]],
                         next |-> 1, wg |-> 0, mutex |-> 0,
                         results |-> EmptyResults,
                         task |-> [i \in 1..n |-> TaskIdle],
                         written |-> {},
                         returned |-> [isNil |-> TRUE, entries |-> EmptyResults]]

\* DownloadAll, lines 86-97, and download, lines 101-104: the schemas are
\* listed; the result map, the mutex and the wait group are set up
StartDownload ==
    /\ download.pc = "start"
    /\ download' =
          IF ~download.schemasListed
          THEN [download EXCEPT !.pc = "returned"]
          ELSE [download EXCEPT !.pc = "spawn", !.wg = Len(download.schemas)]
    /\ UNCHANGED <<deployVars, tenant, loader, rateLimit, pure, deleter, parallel>>

\* lines 105-122: the loop starts the goroutine of the next schema
Spawn ==
    /\ download.pc = "spawn" /\ download.next <= Len(download.schemas)
    /\ download' = [download EXCEPT !.next = @ + 1,
                                    !.task[download.next].pc = "list"]
    /\ UNCHANGED <<deployVars, tenant, loader, rateLimit, pure, deleter, parallel>>

\* the loop is over
SpawnedAll ==
    /\ download.pc = "spawn" /\ download.next > Len(download.schemas)
    /\ download' = [download EXCEPT !.pc = "wait"]
    /\ UNCHANGED <<deployVars, tenant, loader, rateLimit, pure, deleter, parallel>>

\* faulty variant of TasksAfterList: a failed listing ends the goroutines
\* of the other schemas too
TasksAfterListCancelling(tasks, i, answer) ==
    IF answer.err # ""
    THEN [j \in DOMAIN tasks |->
            IF tasks[j].pc \in {"list", "convert", "lock"} THEN [tasks[j] EXCEPT !.pc = "exit"]
            ELSE tasks[j]]
    ELSE IF Len(answer.objects) = 0 THEN [tasks EXCEPT ![i].pc = "exit"]
    ELSE [tasks EXCEPT ![i].pc = "convert", ![i].objects = answer.objects]

\* lines 109-116: the goroutines after goroutine i got its answer from
\* ListSettings; it returns on an error and on an empty listing
TasksAfterList(tasks, i, answer) ==
    IF answer.err # "" THEN [tasks EXCEPT ![i].pc = "exit"]
    ELSE IF Len(answer.objects) = 0 THEN [tasks EXCEPT ![i].pc = "exit"]
    ELSE [tasks EXCEPT ![i].pc = "convert", ![i].objects = answer.objects]

\* line 109: d.client.ListSettings(s, ...)
ListSettings(i) ==
    /\ download.task[i].pc = "list"
    /\ download' = [download EXCEPT
                      !.task = TasksAfterList(download.task, i, download.listing[i])]
    /\ UNCHANGED <<deployVars, tenant, loader, rateLimit, pure, deleter, parallel>>

\* line 117: configs := d.convertAllObjects(objects, projectName)
ConvertObjects(i) ==
    /\ download.task[i].pc = "convert"
    /\ download' = [download EXCEPT
                      !.task[i].pc = "lock",
                      !.task[i].configs = convertAllObjects(download.task[i].objects, "p")]
    /\ UNCHANGED <<deployVars, tenant, loader, rateLimit, pure, deleter, parallel>>

\* faulty variant of CanLock: the mutex is handed out while it is held
CanLockAlways(mutex) == TRUE

\* sync.Mutex.Lock returns once the mutex is free
CanLock(mutex) == mutex = 0

\* line 118: downloadMutex.Lock()
Lock(i) ==
    /\ download.task[i].pc = "lock" /\ CanLock(download.mutex)
    /\ download' = [download EXCEPT !.task[i].pc = "assign", !.mutex = i]
    /\ UNCHANGED <<deployVars, tenant, loader, rateLimit, pure, deleter, parallel>>

\* faulty variant of StoreResult: the configs are added to those the schema
\* already has
StoreResultAppending(results, s, configs) ==
    IF s \in DOMAIN results
    THEN (s :> (results[s] \o configs)) @@ results
    ELSE (s :> configs) @@ results

\* results[s] = configs: the entry of the schema is set, replacing an
\* earlier one
StoreResult(results, s, configs) == (s :> configs) @@ results

\* line 119: results[s] = configs
Assign(i) ==
    /\ download.task[i].pc = "assign"
    /\ download' = [download EXCEPT
                      !.task[i].pc = "unlock",
                      !.results = StoreResult(@, download.schemas[i],
                                              download.task[i].configs),
                      !.written = @ \cup {download.schemas[i]}]
    /\ UNCHANGED <<deployVars, tenant, loader, rateLimit, pure, deleter, parallel>>

\* line 120: downloadMutex.Unlock()
Unlock(i) ==
    /\ download.task[i].pc = "unlock"
    /\ download' = [download EXCEPT !.task[i].pc = "exit", !.mutex = 0]
    /\ UNCHANGED <<deployVars, tenant, loader, rateLimit, pure, deleter, parallel>>

\* line 107: defer wg.Done()
Done(i) ==
    /\ download.task[i].pc = "exit"
    /\ download' = [download EXCEPT !.task[i].pc = "done", !.wg = @ - 1]
    /\ UNCHANGED <<deployVars, tenant, loader, rateLimit, pure, deleter, parallel>>

\* faulty variant of WaitReturns: Wait does not wait
WaitReturnsAtOnce(wg) == TRUE

\* sync.WaitGroup.Wait returns once the counter is zero
WaitReturns(wg) == wg = 0

\* lines 123-125: wg.Wait(); return results
WaitAndReturn ==
    /\ download.pc = "wait" /\ WaitReturns(download.wg)
    /\ download' = [download EXCEPT
                      !.pc = "returned",
                      !.returned = [isNil |-> FALSE, entries |-> download.results]]
    /\ UNCHANGED <<deployVars, tenant, loader, rateLimit, pure, deleter, parallel>>

DownloadNext ==
    \/ StartDownload \/ Spawn \/ SpawnedAll \/ WaitAndReturn
    \/ \E i \in DOMAIN download.task :
          ListSettings(i) \/ ConvertObjects(i) \/ Lock(i) \/ Assign(i) \/ Unlock(i) \/ Done(i)

DownloadSpec == DownloadInit /\ [][DownloadNext]_vars

\* download has returned the map it built
ReturnedMap == download.pc = "returned" /\ ~download.returned.isNil

\* the schemas whose listing failed
FailedSchemas == { i \in DOMAIN download.listing : download.listing[i].err # "" }

\* what the goroutine of schema i has to store: the conversion of its listing
ExpectedConfigs(i) == convertAllObjects(download.listing[i].objects, "p")

\* C21: the returned map has no schema mapped to an empty list; a schema
\* whose converted result is empty has no entry
C21_NoEmptyEntry ==
    ReturnedMap =>
       \A s \in DOMAIN download.returned.entries : download.returned.entries[s] # <<>>

\* C22: when ListSettings fails for a schema, the goroutines of the other
\* schemas still finish and their results are in the returned map, the
\* failed schema has no entry, the caller gets the map, and the download is
\* never stuck before it returns
C22_ListFailureIsLocal ==
    /\ (ReturnedMap /\ FailedSchemas # {}) =>
          \A i \in DOMAIN download.listing :
             /\ download.task[i].pc = "done"
             /\ i \in FailedSchemas =>
                   download.schemas[i] \notin DOMAIN download.returned.entries
             /\ (i \notin FailedSchemas /\ ExpectedConfigs(i) # <<>>) =>
                   /\ download.schemas[i] \in DOMAIN download.returned.entries
                   /\ download.returned.entries[download.schemas[i]] = ExpectedConfigs(i)
    /\ (download.pc \notin {"idle", "returned"} /\ FailedSchemas # {}) => ENABLED DownloadNext

\* a failed schema next to one whose configs were returned
C22_Witness ==
    /\ ReturnedMap
    /\ \E i \in FailedSchemas, j \in DOMAIN download.listing :
          /\ j \notin FailedSchemas
          /\ download.schemas[j] \in DOMAIN download.returned.entries
          /\ download.returned.entries[download.schemas[j]] # <<>>

\* C23: when download returns, every goroutine has finished, the returned
\* map is the result map with every result a goroutine wrote, and the result
\* map does not change afterwards
C23_ReturnsAfterAllTasks ==
    ReturnedMap =>
       /\ \A i \in DOMAIN download.task : download.task[i].pc = "done"
       /\ download.wg = 0
       /\ download.returned.entries = download.results
       /\ \A i \in DOMAIN download.task :
             download.schemas[i] \in download.written =>
                /\ download.schemas[i] \in DOMAIN download.returned.entries
                /\ download.returned.entries[download.schemas[i]] = download.task[i].configs

\* a return after every schema of the bound wrote its result
C23_Witness ==
    /\ ReturnedMap
    /\ Len(download.schemas) = MaxSchemas
    /\ download.written = { download.schemas[i] : i \in DOMAIN download.schemas }

\* the goroutines between Lock and Unlock
InsideLock == { i \in DOMAIN download.task : download.task[i].pc \in {"assign", "unlock"} }

\* C24: at most one goroutine is at the assignment to the result map, and
\* the mutex is held exactly from Lock to Unlock around that assignment,
\* never while listing or converting
C24_WritesMutuallyExclusive ==
    /\ Cardinality(InsideLock) <= 1
    /\ \A i \in DOMAIN download.task :
          /\ download.mutex = i => i \in InsideLock
          /\ i \in InsideLock => download.mutex = i
          /\ download.task[i].pc \in {"list", "convert", "lock"} => download.mutex # i

\* one goroutine at the assignment while another waits for the mutex
C24_Witness ==
    \E i, j \in DOMAIN download.task :
       /\ i # j
       /\ download.task[i].pc = "assign" /\ download.mutex = i
       /\ download.task[j].pc = "lock"

\* the numbers of the requested schemas the client lists objects for
ListedSchemas ==
    { i \in DOMAIN download.listing :
        download.listing[i].err = "" /\ Len(download.listing[i].objects) > 0 }

\* the map a download of these schemas returns with this client, whatever
\* the order its goroutines run in: an entry for every schema with listed
\* objects, holding their conversion
ResultsOfRequest ==
    [s \in { download.schemas[i] : i \in ListedSchemas } |->
        LET i == CHOOSE k \in ListedSchemas : download.schemas[k] = s
        IN  ExpectedConfigs(i)]

\* C32: with a client whose ListSettings answer depends on the schema id
\* only, every interleaving of the goroutines returns the same map, the one
\* the requested ids and the client's answers determine, also when an id is
\* requested more than once
C32_ResultIndependentOfInterleaving ==
    /\ \A i, j \in DOMAIN download.schemas :
          download.schemas[i] = download.schemas[j] =>
             download.listing[i] = download.listing[j]
    /\ ReturnedMap =>
          /\ DOMAIN download.returned.entries = DOMAIN ResultsOfRequest
          /\ download.returned.entries = ResultsOfRequest

\* a schema requested twice was stored by two goroutines, and the map was
\* returned
C32_Witness ==
    /\ ReturnedMap
    /\ \E i, j \in DOMAIN download.schemas :
          /\ i # j /\ download.schemas[i] = download.schemas[j]
          /\ {i, j} \subseteq ListedSchemas
          /\ download.task[i].pc = "done" /\ download.task[j].pc = "done"
          /\ Len(ExpectedConfigs(i)) > 1
          /\ download.returned.entries[download.schemas[i]] = ExpectedConfigs(i)

(***************************************************************************)
(* Part 8: monaco delete -- deleteConfigs over the selected environments   *)
(***************************************************************************)
\* the most environments a delete run is given
MaxEnvironments == 3

EnvironmentNameAt(i) == "env" \o ToString(i)

\* what can go wrong while the client of an environment is created
ClientFailures == {"", "token", "url", "client"}

\* the errors delete.DeleteConfigs may return for an environment
DeleteErrorChoices == { <<>>, <<"delete failed: a">>, <<"delete failed: a", "delete failed: b">> }

\* an environment of the manifest: whether its token and URL resolve and its
\* client can be built, and what deleting on it answers
EnvironmentChoices(i) ==
    { [Name |-> EnvironmentNameAt(i), clientFailure |-> f, deleteErrors |-> <<>>] :
         f \in ClientFailures \ {""} }
    \cup { [Name |-> EnvironmentNameAt(i), clientFailure |-> "", deleteErrors |-> d] :
              d \in DeleteErrorChoices }

\* createClient(env, false): the first of GetToken, GetUrl and
\* NewDynatraceClient that fails is the error
createClient(env, dryRun) ==
    IF dryRun THEN [client |-> "dummy", err |-> ""]
    ELSE IF env.clientFailure = "token" THEN [client |-> "", err |-> "no token"]
    ELSE IF env.clientFailure = "url" THEN [client |-> "", err |-> "no url"]
    ELSE IF env.clientFailure = "client" THEN [client |-> "", err |-> "no client"]
    ELSE [client |-> env.Name, err |-> ""]

\* delete.DeleteConfigs(client, apis, entriesToDelete)
DeleteConfigs(env) == env.deleteErrors

\* the error deleteConfigForEnvironment returns when no client was created
ClientError(env, err) ==
    <<"It was not possible to create a client for env " \o env.Name
        \o " due to the following error: " \o err>>

\* faulty variant of NextEnvironment: the loop ends at the first
\* environment that reports an error
NextEnvironmentStopsOnError(k, n, deleteErrors) ==
    IF deleteErrors # <<>> THEN n + 1 ELSE k + 1

\* for _, env := range environments: the loop goes on to the next
\* environment whatever the last one returned
NextEnvironment(k, n, deleteErrors) == k + 1

\* Delete, lines 91-94: an error that carries the number of collected errors
DeleteResult(deleteErrors) ==
    IF Len(deleteErrors) > 0
    THEN [isErr |-> TRUE, count |-> Len(deleteErrors)]
    ELSE [isErr |-> FALSE, count |-> 0]

DeleteInit ==
    /\ sortedConfigs = <<>> /\ opts = Idle /\ pc = "idle" /\ idx = 0
    /\ entityMap = Idle /\ errors = <<>> /\ calls = <<>> /\ puts = <<>>
    /\ processed = <<>>
    /\ tenant = Idle /\ loader = Idle /\ rateLimit = Idle /\ pure = Idle
    /\ download = Idle /\ parallel = Idle
    /\ \E n \in 1..MaxEnvironments :
       \E environments \in [1..n -> UNION { EnvironmentChoices(i) : i \in 1..n }] :
          /\ \A i \in 1..n : environments[i] \in EnvironmentChoices(i)
          /\ deleter = [pc |-> "start", environments |-> environments, k |-> 0,
                        errors |-> <<>>, attempts |-> <<>>, logged |-> <<>>,
                        result |-> [isErr |-> FALSE, count |-> 0]]

\* Delete, line 86: deleteConfigs is called with the selected environments
CallDeleteConfigs ==
    /\ deleter.pc = "start"
    /\ deleter' = [deleter EXCEPT !.pc = "loop", !.k = 1]
    /\ UNCHANGED <<deployVars, tenant, loader, rateLimit, pure, download, parallel>>

\* deleteConfigForEnvironment, lines 111-117, and deleteConfigs, lines
\* 102-104: the client of the next environment; when it cannot be created
\* the one error is appended and the loop goes on
CreateClient ==
    /\ deleter.pc = "loop" /\ deleter.k <= Len(deleter.environments)
    /\ LET env == deleter.environments[deleter.k]
           made == createClient(env, FALSE)
           attempted == Append(deleter.attempts, <<env.Name, "createClient">>)
       IN  deleter' =
              IF made.err # ""
              THEN [deleter EXCEPT
                      !.attempts = attempted,
                      !.errors = @ \o ClientError(env, made.err),
                      !.k = NextEnvironment(deleter.k, Len(deleter.environments),
                                            ClientError(env, made.err))]
              ELSE [deleter EXCEPT !.attempts = attempted, !.pc = "delete"]
    /\ UNCHANGED <<deployVars, tenant, loader, rateLimit, pure, download, parallel>>

\* deleteConfigForEnvironment, line 121, and deleteConfigs, lines 102-104:
\* the configs are deleted on the environment and its errors are appended
DeleteOnEnvironment ==
    /\ deleter.pc = "delete"
    /\ LET env == deleter.environments[deleter.k]
           deleteErrors == DeleteConfigs(env)
       IN  deleter' = [deleter EXCEPT
                         !.attempts = Append(@, <<env.Name, "DeleteConfigs">>),
                         !.errors = @ \o deleteErrors,
                         !.k = NextEnvironment(deleter.k, Len(deleter.environments),
                                               deleteErrors),
                         !.pc = "loop"]
    /\ UNCHANGED <<deployVars, tenant, loader, rateLimit, pure, download, parallel>>

\* deleteConfigs, line 107, and Delete, lines 88-94: the collected errors
\* are logged and summarised
ReturnFromDelete ==
    /\ deleter.pc = "loop" /\ deleter.k > Len(deleter.environments)
    /\ deleter' = [deleter EXCEPT !.pc = "returned",
                                  !.logged = deleter.errors,
                                  !.result = DeleteResult(deleter.errors)]
    /\ UNCHANGED <<deployVars, tenant, loader, rateLimit, pure, download, parallel>>

DeleteNext == CallDeleteConfigs \/ CreateClient \/ DeleteOnEnvironment \/ ReturnFromDelete

DeleteSpec == DeleteInit /\ [][DeleteNext]_vars

\* the errors an environment contributes
ErrorsOfEnvironment(env) ==
    IF createClient(env, FALSE).err # ""
    THEN ClientError(env, createClient(env, FALSE).err)
    ELSE DeleteConfigs(env)

\* the errors of the environments k..n in the order of the loop
RECURSIVE ErrorsFrom(_, _)
ErrorsFrom(environments, k) ==
    IF k > Len(environments) THEN <<>>
    ELSE ErrorsOfEnvironment(environments[k]) \o ErrorsFrom(environments, k + 1)

MaxParallelConfigs == 2

Runs == {1, 2}

\* the shapes of the configs of the parallel runs: two configs of a
\* unique-name API with the same name clash, a reference reads the entity
\* map, a skipped config and a settings object
ParallelShapes ==
    { Shape("api", "alerting-profile", FALSE, "A", Absent, Absent, {"name"}),
      Shape("api", "alerting-profile", FALSE, "B", Absent, "id", {"name", "url"}),
      Shape("api", "alerting-profile", TRUE, "A", Absent, Absent, {"name"}),
      Shape("settings", "builtin:tags", FALSE, "A", "HOST-1", "name", {"url"}) }

ParallelConfigLists ==
    UNION { { [i \in 1..n |-> ConfigAt(shapes, i)] : shapes \in [1..n -> ParallelShapes] } :
              n \in 1..MaxParallelConfigs }

\* faulty variant of EntityMapOfRun: one entity map for all runs
EntityMapShared(r) == 1

\* line 78, entityMap := NewEntityMap(apis): the entity map a run works on
\* is the one its own call created
EntityMapOfRun(r) == r

\* lines 82-121: what the loop body does for config c on the entity map em
\* when the client answers resp
ProcessConfig(c, o, em, resp) ==
    IF c.Skip
    THEN [entityMap |-> PutResolved(em, c.Coordinate, SkippedEntity(c)),
          errors |-> <<>>, calls |-> <<>>, puts |-> <<c.Coordinate>>, stop |-> FALSE]
    ELSE LET outcome ==
                 IF c.Kind = "entities" THEN Outcome(ZeroEntity, <<>>, <<>>)
                 ELSE IF c.Kind = "settings" THEN deploySetting(resp, em, c)
                 ELSE deployConfig(resp, ApiMap, em, c)
             wrapped == WrapErrors(getWordsForLogging(o.DryRun), c, outcome.errors)
         IN  IF Len(outcome.errors) > 0 /\ StopsOnError(o)
             THEN [entityMap |-> em, errors |-> wrapped, calls |-> outcome.calls,
                   puts |-> <<>>, stop |-> TRUE]
             ELSE [entityMap |-> PutResolved(em, RecordKey(c, outcome.entity),
                                             outcome.entity),
                   errors |-> wrapped, calls |-> outcome.calls,
                   puts |-> <<RecordKey(c, outcome.entity)>>, stop |-> FALSE]

\* the answers the client of an environment may give for a config; a
\* config that reaches no client has one
ResponsesFor(c) ==
    IF c.Skip \/ c.Kind = "entities"
    THEN { [ok |-> FALSE, Id |-> "", Name |-> ""] }
    ELSE ClientResponses

\* a run that was not called yet
RunAt(r) ==
    [pc |-> "start", idx |-> 0, errors |-> <<>>, calls |-> <<>>, puts |-> <<>>,
     answers |-> <<>>]

ParallelInit ==
    /\ sortedConfigs = <<>> /\ opts = Idle /\ pc = "idle" /\ idx = 0
    /\ entityMap = Idle /\ errors = <<>> /\ calls = <<>> /\ puts = <<>>
    /\ processed = <<>>
    /\ tenant = Idle /\ loader = Idle /\ rateLimit = Idle /\ pure = Idle
    /\ download = Idle /\ deleter = Idle
    /\ \E configs \in ParallelConfigLists, continueOnErr \in BOOLEAN :
          parallel = [configs |-> configs,
                      opts |-> [ContinueOnErr |-> continueOnErr, DryRun |-> FALSE],
                      run |-> [r \in Runs |-> RunAt(r)],
                      entityMaps |-> [r \in Runs |-> NewEntityMap(ApiMap)]]

\* lines 75-80: DeployConfigs is called for an environment and creates its
\* entity map
StartRun(r) ==
    /\ parallel.run[r].pc = "start"
    /\ parallel' = [parallel EXCEPT
                      !.run[r].pc = "loop", !.run[r].idx = 1,
                      !.entityMaps[EntityMapOfRun(r)] = NewEntityMap(ApiMap)]
    /\ UNCHANGED <<deployVars, tenant, loader, rateLimit, pure, download, deleter>>

\* lines 82-121: run r handles its next config
StepRun(r) ==
    /\ parallel.run[r].pc = "loop" /\ parallel.run[r].idx <= Len(parallel.configs)
    /\ LET c == parallel.configs[parallel.run[r].idx] IN
       \E resp \in ResponsesFor(c) :
          LET done == ProcessConfig(c, parallel.opts,
                                    parallel.entityMaps[EntityMapOfRun(r)], resp)
          IN  parallel' = [parallel EXCEPT
                             !.entityMaps[EntityMapOfRun(r)] = done.entityMap,
                             !.run[r].errors = @ \o done.errors,
                             !.run[r].calls = @ \o done.calls,
                             !.run[r].puts = @ \o done.puts,
                             !.run[r].answers = Append(@, resp),
                             !.run[r].idx = IF done.stop THEN @ ELSE NextIndex(@),
                             !.run[r].pc = IF done.stop THEN "done" ELSE "loop"]
    /\ UNCHANGED <<deployVars, tenant, loader, rateLimit, pure, download, deleter>>

\* line 123: the loop of run r is over
ReturnRun(r) ==
    /\ parallel.run[r].pc = "loop" /\ parallel.run[r].idx > Len(parallel.configs)
    /\ parallel' = [parallel EXCEPT !.run[r].pc = "done"]
    /\ UNCHANGED <<deployVars, tenant, loader, rateLimit, pure, download, deleter>>

ParallelNext == \E r \in Runs : StartRun(r) \/ StepRun(r) \/ ReturnRun(r)

ParallelSpec == ParallelInit /\ [][ParallelNext]_vars

\* a run alone: the loop over the first Len(answers) configs, given the
\* answers of its client, from a new entity map
RECURSIVE SoloFrom(_, _, _, _, _)
SoloFrom(configs, o, answers, k, acc) ==
    IF k > Len(answers) THEN acc
    ELSE LET done == ProcessConfig(configs[k], o, acc.entityMap, answers[k])
         IN  SoloFrom(configs, o, answers, k + 1,
                      [entityMap |-> done.entityMap,
                       errors |-> acc.errors \o done.errors,
                       calls |-> acc.calls \o done.calls,
                       puts |-> acc.puts \o done.puts])

SoloRun(configs, o, answers) ==
    SoloFrom(configs, o, answers, 1,
             [entityMap |-> NewEntityMap(ApiMap), errors |-> <<>>, calls |-> <<>>,
              puts |-> <<>>])

\* the errors of a run that report a name used twice
DuplicateDecisions(errs) ==
    SelectSeq(errs, LAMBDA e : e.err.kind = "duplicate")

\* C29: in every interleaving of two runs, the entity map of each run, its
\* duplicate-name errors, its errors and its client calls are those of the
\* same run alone with the same answers of its client
C29_RunsDoNotInterfere ==
    \A r \in Runs :
       parallel.run[r].pc \in {"loop", "done"} =>
          LET solo == SoloRun(parallel.configs, parallel.opts, parallel.run[r].answers)
          IN  /\ parallel.entityMaps[EntityMapOfRun(r)] = solo.entityMap
              /\ parallel.entityMaps[r] = solo.entityMap
              /\ parallel.run[r].errors = solo.errors
              /\ DuplicateDecisions(parallel.run[r].errors) = DuplicateDecisions(solo.errors)
              /\ parallel.run[r].calls = solo.calls
              /\ parallel.run[r].puts = solo.puts

\* both runs deployed a config of a unique-name API under the same name,
\* each on its own environment, and neither reports an error
C29_Witness ==
    /\ \A r \in Runs :
          /\ parallel.run[r].pc = "done"
          /\ parallel.run[r].errors = <<>>
          /\ Len(parallel.run[r].calls) = Len(parallel.configs)
          /\ Known(parallel.entityMaps[r], "alerting-profile", "A")
    /\ Len(parallel.configs) = MaxParallelConfigs
    /\ parallel.configs[1].Coordinate.Type = "alerting-profile"
    /\ parallel.run[1].answers # parallel.run[2].answers

(***************************************************************************)
(* Part 10: monaco delete -- the selection of the environments             *)
(***************************************************************************)
\* the groups an environment may be in, and the group filters Delete may be
\* given: none, or a group, which may have no environment in the manifest
GroupNames == {"g1", "g2"}
GroupFilters == {"", "g1", "g2"}

\* an environment of the manifest with its group
ManifestEnvironment(i, group, failure) ==
    [Name |-> EnvironmentNameAt(i), Group |-> group, clientFailure |-> failure,
     deleteErrors |-> <<>>]

\* the manifests of n environments
Manifests(n) ==
    { { ManifestEnvironment(i, groupOf[i], failureOf[i]) : i \in 1..n } :
        groupOf \in [1..n -> GroupNames], failureOf \in [1..n -> {"", "token"}] }

\* the names Delete may be given: of environments of the manifest, or unknown
NameFilters(n) == SUBSET ({ EnvironmentNameAt(i) : i \in 1..n } \cup {"unknown"})

\* Environments.FilterByGroup: the environments of the group
FilterByGroup(environments, group) == { e \in environments : e.Group = group }

\* Environments.FilterByNames: the environments with these names, or an
\* error if a name is not an environment's
FilterByNames(environments, names) ==
    IF \E name \in names : \A e \in environments : e.Name # name
    THEN [err |-> "environment not found", environments |-> {}]
    ELSE [err |-> "", environments |-> { e \in environments : e.Name \in names }]

\* Delete, lines 67-84: the environments to delete from, or the error Delete
\* returns instead; the name filter is applied to manifest.Environments
selectEnvironments(manifestEnvironments, environmentGroup, environmentNames) ==
    LET ofGroup == IF environmentGroup # ""
                   THEN FilterByGroup(manifestEnvironments, environmentGroup)
                   ELSE manifestEnvironments
        ofNames == FilterByNames(manifestEnvironments, environmentNames)
    IN  IF environmentGroup # "" /\ ofGroup = {}
        THEN [err |-> "no environments in group", environments |-> {}]
        ELSE IF environmentNames # {}
        THEN IF ofNames.err # ""
             THEN [err |-> "failed to load environments", environments |-> {}]
             ELSE [err |-> "", environments |-> ofNames.environments]
        ELSE [err |-> "", environments |-> ofGroup]

\* maps.Values(environments): the environments in any order
ValuesOf(environments) ==
    { order \in [1..Cardinality(environments) -> environments] :
        \A i, j \in DOMAIN order : i # j => order[i] # order[j] }

SelectInit ==
    /\ sortedConfigs = <<>> /\ opts = Idle /\ pc = "idle" /\ idx = 0
    /\ entityMap = Idle /\ errors = <<>> /\ calls = <<>> /\ puts = <<>>
    /\ processed = <<>>
    /\ tenant = Idle /\ loader = Idle /\ rateLimit = Idle /\ pure = Idle
    /\ download = Idle /\ parallel = Idle
    /\ \E n \in 1..MaxEnvironments :
       \E manifestEnvironments \in Manifests(n), environmentGroup \in GroupFilters,
          environmentNames \in NameFilters(n) :
          deleter = [pc |-> "select", manifest |-> manifestEnvironments,
                     environmentGroup |-> environmentGroup,
                     environmentNames |-> environmentNames,
                     environments |-> <<>>, k |-> 0,
                     errors |-> <<>>, attempts |-> <<>>, logged |-> <<>>,
                     result |-> [isErr |-> FALSE, count |-> 0]]

\* Delete, lines 67-86: the environments are selected and handed to
\* deleteConfigs, or Delete returns an error
SelectEnvironments ==
    /\ deleter.pc = "select"
    /\ LET selected == selectEnvironments(deleter.manifest, deleter.environmentGroup,
                                          deleter.environmentNames)
       IN  IF selected.err # ""
           THEN deleter' = [deleter EXCEPT !.pc = "returned",
                                           !.result = [isErr |-> TRUE, count |-> 0]]
           ELSE \E order \in ValuesOf(selected.environments) :
                   deleter' = [deleter EXCEPT !.pc = "start", !.environments = order]
    /\ UNCHANGED <<deployVars, tenant, loader, rateLimit, pure, download, parallel>>

SelectNext ==
    SelectEnvironments \/ CallDeleteConfigs \/ CreateClient \/ DeleteOnEnvironment
       \/ ReturnFromDelete

SelectSpec == SelectInit /\ [][SelectNext]_vars

\* the environments of the manifest both filters select
SelectedByBoth ==
    { e \in deleter.manifest :
        /\ deleter.environmentGroup # "" => e.Group = deleter.environmentGroup
        /\ deleter.environmentNames # {} => e.Name \in deleter.environmentNames }

\* the number of attempts of this kind on the environment of this name
AttemptsOn(name, what) ==
    Cardinality({ a \in DOMAIN deleter.attempts : deleter.attempts[a] = <<name, what>> })

\* C33: with a group filter and names given, a client is created and
\* configs are deleted only for environments both filters select, never for
\* one outside the group, and once Delete returned without a selection
\* error each selected environment was handled exactly once
C33_OnlyEnvironmentsOfBothFilters ==
    (deleter.environmentGroup # "" /\ deleter.environmentNames # {}) =>
       /\ \A a \in DOMAIN deleter.attempts :
             \E e \in SelectedByBoth : e.Name = deleter.attempts[a][1]
       /\ \A e \in deleter.manifest :
             e.Group # deleter.environmentGroup =>
                AttemptsOn(e.Name, "createClient") + AttemptsOn(e.Name, "DeleteConfigs") = 0
       /\ (deleter.pc = "returned" /\ deleter.attempts # <<>>) =>
             \A e \in SelectedByBoth : AttemptsOn(e.Name, "createClient") = 1

====
